---- MODULE Spec2Model ----
(***************************************************************************)
(* Model of the minikube Cluster API provider's two reconcilers:          *)
(*   MinikubeClusterReconciler  (minikubecluster_controller.go)           *)
(*   MinikubeMachineReconciler  (minikubemachine_controller.go)           *)
(* One reconcile pass is one action: controller-runtime never runs two    *)
(* passes of one key at once, every HostBridge call's answer is drawn     *)
(* from the answers the bridge can give, and the deferred patch either is *)
(* applied by the API server or is rejected (the error is only logged).   *)
(***************************************************************************)
EXTENDS Integers, Sequences, FiniteSets, TLC

VARIABLES
    cluster,    \* the owning clusterv1.Cluster: [exists, Paused]
    mc,         \* the MinikubeCluster object in the API server
    mm,         \* the MinikubeMachine objects in the API server, by key
    nodes,      \* the node names of the minikube profile, in config order
    last,       \* what the most recent reconcile pass read, did and returned
    sched,      \* the scheduler's work queue: [dirty, queue, processing]
    added       \* history: the AddNode calls that succeeded, as <<key, name>>

vars == <<cluster, mc, mm, nodes, last, sched, added>>

-----------------------------------------------------------------------------
(* Bounds of the model *)

\* the largest node list the profile may hold
MaxNodes == 3

\* the largest node ordinal the model forms
MaxOrd == MaxNodes + 2

Machines == {"a"}

\* the reconciliation workers of the scheduler
MaxWorkers == 2

Workers == 1..MaxWorkers

-----------------------------------------------------------------------------
(* Values *)

\* a Go nil pointer is the empty sequence, ptr(s) the one-element sequence
nil == <<>>

ptr(s) == <<s>>

ClusterName == "c1"

ExplicitProfile == "prof"

phaseUnset == ""

phaseProvisioning == "Provisioning"

phaseProvisioned == "Provisioned"

phaseDeleting == "Deleting"

phaseFailed == "Failed"

IPs == {"10.0.0.5", "10.0.0.6"}

Ports == {8443, 8444}

ProviderIDs == {"", "p-123"}

KubernetesVersions == {"v1.31.0", "v1.30.2"}

\* a node name no ordinal can be parsed from
CustomName == "custom"

\* node.Name: the canonical node name of an ordinal
Name(i) == "node-" \o ToString(i)

\* node.ID: the ordinal of a canonical node name; -1 stands for the parse error
ID(name) ==
    IF \E i \in 1..MaxOrd : Name(i) = name
    THEN CHOOSE i \in 1..MaxOrd : Name(i) = name
    ELSE -1

\* the spec fields a user sets on a MinikubeMachine, per machine key
SpecWorker(m) == IF m = "a" THEN nil ELSE ptr(FALSE)

SpecControlPlane(m) == m # "a"

Range(s) == {s[i] : i \in DOMAIN s}

-----------------------------------------------------------------------------
(* The HostBridge (Node Provisioner).  Each call's answer is an input of   *)
(* the pass; the node list is the part of the host's state the reconcilers *)
(* read back.                                                              *)

\* answers of GetClusterConfig: failure, or the primary node's IP, the API
\* server port and the Kubernetes version of the profile
ConfigOutcomes ==
    {[ok |-> FALSE, ip |-> "", port |-> 0, version |-> ""]} \cup
    {[ok |-> TRUE, ip |-> i, port |-> p, version |-> v] :
        i \in IPs \cup {""}, p \in Ports, v \in KubernetesVersions}

\* answers of AddNode: success, failure, failure that leaves the node in the
\* profile (delOnFail is false)
AddOutcomes == {"ok", "fail", "failLeft"}

\* answers of GetNodeInfo
DescribeOutcomes ==
    {[ok |-> FALSE, ProviderID |-> "", IP |-> "", Running |-> FALSE]} \cup
    {[ok |-> TRUE, ProviderID |-> p, IP |-> i, Running |-> r] :
        p \in ProviderIDs, i \in IPs, r \in BOOLEAN}

\* answers of DeleteNode
DeleteOutcomes == {"ok", "fail"}

\* the profile the host knows: the explicit profile name of the
\* MinikubeCluster, else the Cluster's name
HostProfile == IF mc.ProfileName = "" THEN ClusterName ELSE mc.ProfileName

\* bridge.GetClusterConfig: the profile's configuration, or an error
GetClusterConfig(profile, hostNodes, cfg) ==
    IF cfg.ok /\ profile = HostProfile
    THEN [ok |-> TRUE,
          Nodes |-> [i \in DOMAIN hostNodes |->
                        [Name |-> hostNodes[i],
                         IP |-> IF i = 1 THEN cfg.ip ELSE "10.0.0.9"]],
          APIServerPort |-> cfg.port,
          KubernetesVersion |-> cfg.version]
    ELSE [ok |-> FALSE, Nodes |-> <<>>, APIServerPort |-> 0,
          KubernetesVersion |-> ""]

\* bridge.AddNode succeeded: the answer is "ok", the profile is the host's and
\* the host has room for the node
AddNodeOK(profile, hostNodes, name, add) ==
    /\ add = "ok"
    /\ profile = HostProfile
    /\ (name \in Range(hostNodes) \/ Len(hostNodes) < MaxNodes)

\* the host's node list after bridge.AddNode
AddNodeEffect(profile, hostNodes, name, add) ==
    IF /\ profile = HostProfile
       /\ add \in {"ok", "failLeft"}
       /\ name \notin Range(hostNodes)
       /\ Len(hostNodes) < MaxNodes
    THEN Append(hostNodes, name)
    ELSE hostNodes

\* bridge.GetNodeInfo: the node's provider id, address and running flag; an
\* error when the answer is a failure or the profile has no such node
GetNodeInfo(profile, hostNodes, name, desc) ==
    IF desc.ok /\ profile = HostProfile /\ name \in Range(hostNodes)
    THEN desc
    ELSE [ok |-> FALSE, ProviderID |-> "", IP |-> "", Running |-> FALSE]

\* bridge.DeleteNode succeeded
DeleteNodeOK(profile, hostNodes, name, del) ==
    del = "ok" /\ profile = HostProfile /\ name \in Range(hostNodes)

\* the host's node list after bridge.DeleteNode
DeleteNodeEffect(profile, hostNodes, name, del) ==
    IF DeleteNodeOK(profile, hostNodes, name, del)
    THEN SelectSeq(hostNodes, LAMBDA n : n # name)
    ELSE hostNodes

-----------------------------------------------------------------------------
(* What a pass returns: ctrl.Result and the error *)

Result(requeue, err) == [Requeue |-> requeue, err |-> err]

\* a HostBridge call as the pass issued it
Call(op, profile, name, ok) ==
    [op |-> op, profile |-> profile, name |-> name, ok |-> ok]

\* a GetClusterConfig call, with the configuration it returned
ConfigCall(profile, clusterConfig) ==
    [op |-> "GetClusterConfig", profile |-> profile, name |-> "",
     ok |-> clusterConfig.ok, Nodes |-> clusterConfig.Nodes,
     APIServerPort |-> clusterConfig.APIServerPort,
     KubernetesVersion |-> clusterConfig.KubernetesVersion]

\* an AddNode call, with the node configuration and the delOnFail flag
AddCall(profile, newNode, delOnFail, ok) ==
    [op |-> "AddNode", profile |-> profile, name |-> newNode.Name, ok |-> ok,
     node |-> newNode, delOnFail |-> delOnFail]

\* a GetNodeInfo call, with the node information it returned
DescribeCall(profile, name, nodeInfo) ==
    [op |-> "GetNodeInfo", profile |-> profile, name |-> name,
     ok |-> nodeInfo.ok, ProviderID |-> nodeInfo.ProviderID,
     IP |-> nodeInfo.IP, Running |-> nodeInfo.Running]

-----------------------------------------------------------------------------
(* MinikubeMachineReconciler *)

\* what a reconcile function hands back: the object in memory, the host's node
\* list, the HostBridge calls made, and (ctrl.Result, error)
Outcome(obj, hostNodes, calls, res) ==
    [obj |-> obj, nodes |-> hostNodes, calls |-> calls, res |-> res]

\* faulty variant of nextNodeName: the fallback ordinal is 0 and not the node
\* count (C6 must reject it)
nextNodeName_zeroFallback(Nodes) ==
    LET lastID == IF Len(Nodes) > 0 /\ ID(Nodes[Len(Nodes)].Name) # -1
                  THEN ID(Nodes[Len(Nodes)].Name)
                  ELSE 0
    IN  Name(lastID + 1)

\* provisionNode, "Determine node name if not specified": the ordinal after
\* the last node's, or after the node count when there is no last node or its
\* name has no ordinal
nextNodeName(Nodes) ==
    LET lastID == IF Len(Nodes) > 0 /\ ID(Nodes[Len(Nodes)].Name) # -1
                  THEN ID(Nodes[Len(Nodes)].Name)
                  ELSE Len(Nodes)
    IN  Name(lastID + 1)

\* faulty variant of markProvisioned: the failure of an earlier attempt stays
\* in the status (C22 must reject it)
markProvisioned_keepsFailure(obj, nodeInfo) ==
    [obj EXCEPT !.ProviderID = ptr(nodeInfo.ProviderID),
                !.Phase = phaseProvisioned,
                !.Ready = TRUE,
                !.Addresses = <<nodeInfo.IP>>]

\* faulty variant of markProvisioned: the provider id is not written into the
\* spec (C9 must reject it)
markProvisioned_noProviderID(obj, nodeInfo) ==
    [obj EXCEPT !.Phase = phaseProvisioned,
                !.Ready = TRUE,
                !.Addresses = <<nodeInfo.IP>>,
                !.FailureReason = nil,
                !.FailureMessage = nil]

\* provisionNode, "Update machine status" after AddNode and GetNodeInfo succeeded
markProvisioned(obj, nodeInfo) ==
    [obj EXCEPT !.ProviderID = ptr(nodeInfo.ProviderID),
                !.Phase = phaseProvisioned,
                !.Ready = TRUE,
                !.Addresses = <<nodeInfo.IP>>,
                !.FailureReason = nil,
                !.FailureMessage = nil]

\* faulty variant of nodeNameFor: the name is generated on every provisioning
\* pass (C14 must reject it)
nodeNameFor_regenerated(obj, Nodes) == nextNodeName(Nodes)

\* provisionNode, "Determine node name if not specified": the name in the
\* spec, or a generated one when the spec has none
nodeNameFor(obj, Nodes) ==
    IF obj.NodeName = "" THEN nextNodeName(Nodes) ELSE obj.NodeName

\* faulty variant of markFailed: the failure is recorded but the phase is left
\* as it was (C17 must reject it)
markFailed_keepsPhase(obj, reason, message) ==
    [obj EXCEPT !.FailureReason = ptr(reason),
                !.FailureMessage = ptr(message)]

\* provisionNode, the status written when GetClusterConfig or AddNode fails
markFailed(obj, reason, message) ==
    [obj EXCEPT !.Phase = phaseFailed,
                !.FailureReason = ptr(reason),
                !.FailureMessage = ptr(message)]

\* faulty variant of newNodeFor: every node is asked for as a worker, whatever
\* the spec says (C27 must reject it)
newNodeFor_alwaysWorker(obj, nodeName, clusterConfig) ==
    [Name |-> nodeName,
     Worker |-> TRUE,
     ControlPlane |-> obj.ControlPlane,
     KubernetesVersion |-> clusterConfig.KubernetesVersion]

\* provisionNode, "Determine worker flag" and "Create node config"
newNodeFor(obj, nodeName, clusterConfig) ==
    LET worker == IF obj.Worker # nil THEN obj.Worker[1] ELSE TRUE
    IN  [Name |-> nodeName,
         Worker |-> worker,
         ControlPlane |-> obj.ControlPlane,
         KubernetesVersion |-> clusterConfig.KubernetesVersion]

\* faulty variant of describePending: the failed GetNodeInfo marks the Machine
\* Failed and is returned as the error (C21 must reject it)
describePending_marksFailed(obj, hostNodes, calls) ==
    Outcome(markFailed(obj, "NodeInfoFailed", "Failed to get node info"),
            hostNodes, calls, Result(FALSE, TRUE))

\* provisionNode, GetNodeInfo failed after AddNode succeeded: the status stays
\* as it is and the pass asks for a re-pass
describePending(obj, hostNodes, calls) ==
    Outcome(obj, hostNodes, calls, Result(TRUE, FALSE))

provisionNode(profileName, obj, hostNodes, cfg, add, desc) ==
    LET o1 == [obj EXCEPT !.Phase = phaseProvisioning]
        clusterConfig == GetClusterConfig(profileName, hostNodes, cfg)
        c1 == <<ConfigCall(profileName, clusterConfig)>>
    IN  IF ~clusterConfig.ok
        THEN Outcome(markFailed(o1, "ClusterConfigNotFound",
                                "Failed to get cluster config"),
                     hostNodes, c1, Result(FALSE, TRUE))
        ELSE
        LET nodeName == nodeNameFor(o1, clusterConfig.Nodes)
            o2 == [o1 EXCEPT !.NodeName = nodeName]
            newNode == newNodeFor(o2, nodeName, clusterConfig)
            addOK == AddNodeOK(profileName, hostNodes, nodeName, add)
            nodes2 == AddNodeEffect(profileName, hostNodes, nodeName, add)
            c2 == Append(c1, AddCall(profileName, newNode, FALSE, addOK))
        IN  IF ~addOK
            THEN Outcome(markFailed(o2, "NodeProvisionFailed",
                                    "Failed to provision node"),
                         nodes2, c2, Result(FALSE, TRUE))
            ELSE
            LET nodeInfo == GetNodeInfo(profileName, nodes2, nodeName, desc)
                c3 == Append(c2, DescribeCall(profileName, nodeName, nodeInfo))
            IN  IF ~nodeInfo.ok
                THEN describePending(o2, nodes2, c3)
                ELSE Outcome(markProvisioned(o2, nodeInfo), nodes2, c3,
                             Result(FALSE, FALSE))

\* faulty variant of reconcileExistingNode: a node that is not running marks
\* the Machine Failed (C26 must reject it)
reconcileExistingNode_failsStopped(profileName, obj, hostNodes, desc) ==
    LET nodeInfo == GetNodeInfo(profileName, hostNodes, obj.NodeName, desc)
        c1 == <<DescribeCall(profileName, obj.NodeName, nodeInfo)>>
    IN  IF ~nodeInfo.ok
        THEN Outcome([obj EXCEPT !.Ready = FALSE], hostNodes, c1, Result(FALSE, TRUE))
        ELSE IF ~nodeInfo.Running
        THEN Outcome(markFailed([obj EXCEPT !.Ready = FALSE], "NodeNotRunning",
                                "Node is not running"),
                     hostNodes, c1, Result(FALSE, TRUE))
        ELSE Outcome([obj EXCEPT !.Phase = phaseProvisioned,
                                 !.Ready = nodeInfo.Running,
                                 !.Addresses = <<nodeInfo.IP>>],
                     hostNodes, c1, Result(FALSE, FALSE))

\* faulty variant of reconcileExistingNode: a failed GetNodeInfo asks for a
\* re-pass and returns no error (C12 must reject it)
reconcileExistingNode_requeues(profileName, obj, hostNodes, desc) ==
    LET nodeInfo == GetNodeInfo(profileName, hostNodes, obj.NodeName, desc)
        c1 == <<DescribeCall(profileName, obj.NodeName, nodeInfo)>>
    IN  IF ~nodeInfo.ok
        THEN Outcome([obj EXCEPT !.Ready = FALSE], hostNodes, c1, Result(TRUE, FALSE))
        ELSE Outcome([obj EXCEPT !.Phase = phaseProvisioned,
                                 !.Ready = nodeInfo.Running,
                                 !.Addresses = <<nodeInfo.IP>>],
                     hostNodes, c1, Result(FALSE, FALSE))

\* faulty variant of reconcileExistingNode: a failed GetNodeInfo marks the
\* Machine Failed (C8 must reject it)
reconcileExistingNode_marksFailed(profileName, obj, hostNodes, desc) ==
    LET nodeInfo == GetNodeInfo(profileName, hostNodes, obj.NodeName, desc)
        c1 == <<DescribeCall(profileName, obj.NodeName, nodeInfo)>>
    IN  IF ~nodeInfo.ok
        THEN Outcome([obj EXCEPT !.Ready = FALSE,
                                 !.Phase = phaseFailed,
                                 !.FailureReason = ptr("NodeInfoFailed"),
                                 !.FailureMessage = ptr("Failed to get node info")],
                     hostNodes, c1, Result(FALSE, TRUE))
        ELSE Outcome([obj EXCEPT !.Phase = phaseProvisioned,
                                 !.Ready = nodeInfo.Running,
                                 !.Addresses = <<nodeInfo.IP>>],
                     hostNodes, c1, Result(FALSE, FALSE))

\* faulty variant of reconcileExistingNode: the provider identifier the host
\* reports replaces the stored one (C38 must reject it)
reconcileExistingNode_adoptsProviderID(profileName, obj, hostNodes, desc) ==
    LET nodeInfo == GetNodeInfo(profileName, hostNodes, obj.NodeName, desc)
        c1 == <<DescribeCall(profileName, obj.NodeName, nodeInfo)>>
    IN  IF ~nodeInfo.ok
        THEN Outcome([obj EXCEPT !.Ready = FALSE], hostNodes, c1, Result(FALSE, TRUE))
        ELSE Outcome([obj EXCEPT !.ProviderID = ptr(nodeInfo.ProviderID),
                                 !.Phase = phaseProvisioned,
                                 !.Ready = nodeInfo.Running,
                                 !.Addresses = <<nodeInfo.IP>>],
                     hostNodes, c1, Result(FALSE, FALSE))

reconcileExistingNode(profileName, obj, hostNodes, desc) ==
    LET nodeInfo == GetNodeInfo(profileName, hostNodes, obj.NodeName, desc)
        c1 == <<DescribeCall(profileName, obj.NodeName, nodeInfo)>>
    IN  IF ~nodeInfo.ok
        THEN Outcome([obj EXCEPT !.Ready = FALSE], hostNodes, c1, Result(FALSE, TRUE))
        ELSE Outcome([obj EXCEPT !.Phase = phaseProvisioned,
                                 !.Ready = nodeInfo.Running,
                                 !.Addresses = <<nodeInfo.IP>>],
                     hostNodes, c1, Result(FALSE, FALSE))

\* faulty variant of nodeAlreadyExists: a Machine that is not ready counts as
\* not provisioned (C1 must reject it)
nodeAlreadyExists_onlyWhenReady(obj) ==
    obj.ProviderID # nil /\ obj.ProviderID[1] # "" /\ obj.Ready

\* reconcileNormal, "Check if node already exists"
nodeAlreadyExists(obj) == obj.ProviderID # nil /\ obj.ProviderID[1] # ""

\* faulty variant of profileNameOf: the profile is always named after the
\* Cluster (C30 must reject it)
profileNameOf_clusterName(clusterObj, mcObj) == clusterObj.Name

\* reconcileNormal and reconcileDelete, "Determine the profile name"
profileNameOf(clusterObj, mcObj) ==
    IF mcObj.ProfileName = "" THEN clusterObj.Name ELSE mcObj.ProfileName

\* faulty variant of reconcileNormal: a Machine in phase Failed is left alone
\* (C28 must reject it)
Machine_reconcileNormal_failedAbsorbing(clusterObj, mcObj, obj, hostNodes, cfg, add, desc) ==
    IF ~obj.Finalizers
    THEN Outcome([obj EXCEPT !.Finalizers = TRUE], hostNodes, <<>>,
                 Result(TRUE, FALSE))
    ELSE IF obj.Phase = phaseFailed
         THEN Outcome(obj, hostNodes, <<>>, Result(FALSE, FALSE))
    ELSE IF nodeAlreadyExists(obj)
         THEN reconcileExistingNode(profileNameOf(clusterObj, mcObj), obj,
                                    hostNodes, desc)
         ELSE provisionNode(profileNameOf(clusterObj, mcObj), obj, hostNodes,
                            cfg, add, desc)

\* faulty variant of reconcileNormal: the finalizer is added and the pass goes
\* on to provision (C2 must reject it)
Machine_reconcileNormal_noEarlyReturn(clusterObj, mcObj, obj, hostNodes, cfg, add, desc) ==
    LET o1 == [obj EXCEPT !.Finalizers = TRUE] IN
    IF o1.ProviderID # nil /\ o1.ProviderID[1] # ""
    THEN reconcileExistingNode(profileNameOf(clusterObj, mcObj), o1, hostNodes, desc)
    ELSE provisionNode(profileNameOf(clusterObj, mcObj), o1, hostNodes, cfg, add, desc)

Machine_reconcileNormal(clusterObj, mcObj, obj, hostNodes, cfg, add, desc) ==
    IF ~obj.Finalizers
    THEN Outcome([obj EXCEPT !.Finalizers = TRUE], hostNodes, <<>>,
                 Result(TRUE, FALSE))
    ELSE IF nodeAlreadyExists(obj)
         THEN reconcileExistingNode(profileNameOf(clusterObj, mcObj), obj,
                                    hostNodes, desc)
         ELSE provisionNode(profileNameOf(clusterObj, mcObj), obj, hostNodes,
                            cfg, add, desc)

\* faulty variant of reconcileDelete: DeleteNode is called whether or not the
\* Machine has a node name (C23 must reject it)
Machine_reconcileDelete_alwaysCalls(clusterObj, mcObj, obj, hostNodes, del) ==
    LET o1 == [obj EXCEPT !.Phase = phaseDeleting]
        profileName == profileNameOf(clusterObj, mcObj)
        delOK == DeleteNodeOK(profileName, hostNodes, o1.NodeName, del)
    IN  Outcome([o1 EXCEPT !.Finalizers = FALSE],
                DeleteNodeEffect(profileName, hostNodes, o1.NodeName, del),
                <<Call("DeleteNode", profileName, o1.NodeName, delOK)>>,
                Result(FALSE, FALSE))

\* faulty variant of reconcileDelete: a failed DeleteNode is returned as the
\* error and the finalizer stays (C4 must reject it)
Machine_reconcileDelete_blocking(clusterObj, mcObj, obj, hostNodes, del) ==
    LET o1 == [obj EXCEPT !.Phase = phaseDeleting]
        profileName == profileNameOf(clusterObj, mcObj)
        delOK == DeleteNodeOK(profileName, hostNodes, o1.NodeName, del)
        nodes2 == DeleteNodeEffect(profileName, hostNodes, o1.NodeName, del)
    IN  IF o1.NodeName = ""
        THEN Outcome([o1 EXCEPT !.Finalizers = FALSE], hostNodes, <<>>,
                     Result(FALSE, FALSE))
        ELSE IF ~delOK
        THEN Outcome(o1, nodes2,
                     <<Call("DeleteNode", profileName, o1.NodeName, delOK)>>,
                     Result(FALSE, TRUE))
        ELSE Outcome([o1 EXCEPT !.Finalizers = FALSE], nodes2,
                     <<Call("DeleteNode", profileName, o1.NodeName, delOK)>>,
                     Result(FALSE, FALSE))

Machine_reconcileDelete(clusterObj, mcObj, obj, hostNodes, del) ==
    LET o1 == [obj EXCEPT !.Phase = phaseDeleting]
        profileName == profileNameOf(clusterObj, mcObj)
        delOK == DeleteNodeOK(profileName, hostNodes, o1.NodeName, del)
        calls == IF o1.NodeName # ""
                 THEN <<Call("DeleteNode", profileName, o1.NodeName, delOK)>>
                 ELSE <<>>
        nodes2 == IF o1.NodeName # ""
                  THEN DeleteNodeEffect(profileName, hostNodes, o1.NodeName, del)
                  ELSE hostNodes
    IN  Outcome([o1 EXCEPT !.Finalizers = FALSE], nodes2, calls,
                Result(FALSE, FALSE))

\* answers of the API server to the reads of a pass: all served, or a
\* failure other than NotFound at one of them
ReadOutcomes == {"ok", "errGet", "errOwner", "errCluster", "errInfra"}

\* faulty variant of IsPaused: only the object's own annotation counts (C15
\* must reject it)
IsPaused_objectOnly(clusterObj, obj) == obj.paused

\* annotations.IsPaused: the Cluster is paused or the object carries the
\* paused annotation
IsPaused(clusterObj, obj) == clusterObj.Paused \/ obj.paused

\* faulty variant of Patched: the patch is sent only when reconcileDelete or
\* reconcileNormal returned no error (C24 must reject it)
Patched_onlyOnSuccess(path, obj, out) ==
    [path |-> path, before |-> obj, after |-> out.obj, nodes |-> out.nodes,
     calls |-> out.calls, res |-> out.res, patch |-> ~out.res.err]

\* a pass that returned before the patch helper was made
Deferred(path, obj, res) ==
    [path |-> path, before |-> obj, after |-> obj, nodes |-> nodes,
     calls |-> <<>>, res |-> res, patch |-> FALSE]

\* a pass that ran reconcileDelete or reconcileNormal under the deferred patch
Patched(path, obj, out) ==
    [path |-> path, before |-> obj, after |-> out.obj, nodes |-> out.nodes,
     calls |-> out.calls, res |-> out.res, patch |-> TRUE]

\* faulty variant of deletionRequested: a Machine without a node of its own
\* is reconciled normally though its deletion is requested (C31 must reject
\* it)
deletionRequested_whenProvisioned(obj) ==
    obj.DeletionTimestamp /\ nodeAlreadyExists(obj)

\* Reconcile, "Handle deletion reconciliation loop": the deletion timestamp
\* is set
deletionRequested(obj) == obj.DeletionTimestamp

\* MinikubeMachineReconciler.Reconcile, up to the deferred patch
Machine_Reconcile(m, rd, cfg, add, desc, del) ==
    LET obj == mm[m] IN
    IF rd = "errGet" THEN Deferred("getFailed", obj, Result(FALSE, TRUE))
    ELSE IF ~obj.exists THEN Deferred("notFound", obj, Result(FALSE, FALSE))
    ELSE IF obj.owner = "unset" THEN Deferred("noOwner", obj, Result(FALSE, FALSE))
    ELSE IF obj.owner = "gone" \/ rd = "errOwner"
         THEN Deferred("ownerFailed", obj, Result(FALSE, TRUE))
    ELSE IF ~cluster.exists \/ rd = "errCluster"
         THEN Deferred("noCluster", obj, Result(FALSE, FALSE))
    ELSE IF IsPaused(cluster, obj) THEN Deferred("paused", obj, Result(FALSE, FALSE))
    ELSE IF ~mc.exists \/ rd = "errInfra"
         THEN Deferred("noInfra", obj, Result(FALSE, FALSE))
    ELSE IF deletionRequested(obj)
         THEN Patched("delete", obj,
                      Machine_reconcileDelete(cluster, mc, obj, nodes, del))
         ELSE Patched("normal", obj,
                      Machine_reconcileNormal(cluster, mc, obj, nodes, cfg, add, desc))

-----------------------------------------------------------------------------
(* MinikubeClusterReconciler *)

\* faulty variant of setEndpoint: the endpoint is derived anew on every pass
\* (C5 must reject it)
setEndpoint_always(obj, clusterConfig) ==
    IF /\ Len(clusterConfig.Nodes) > 0
       /\ clusterConfig.Nodes[1].IP # ""
    THEN [obj EXCEPT !.Host = clusterConfig.Nodes[1].IP,
                     !.Port = clusterConfig.APIServerPort]
    ELSE obj

\* faulty variant of setEndpoint: the endpoint gets the default API server
\* port, not the configured one (C19 must reject it)
setEndpoint_defaultPort(obj, clusterConfig) ==
    IF /\ obj.Host = ""
       /\ Len(clusterConfig.Nodes) > 0
       /\ clusterConfig.Nodes[1].IP # ""
    THEN [obj EXCEPT !.Host = clusterConfig.Nodes[1].IP, !.Port = 8443]
    ELSE obj

\* reconcileNormal, "Set the control plane endpoint if not already set"
setEndpoint(obj, clusterConfig) ==
    IF /\ obj.Host = ""
       /\ Len(clusterConfig.Nodes) > 0
       /\ clusterConfig.Nodes[1].IP # ""
    THEN [obj EXCEPT !.Host = clusterConfig.Nodes[1].IP,
                     !.Port = clusterConfig.APIServerPort]
    ELSE obj

\* faulty variant of configFailed: the failure is recorded but the Cluster
\* stays ready (C16 must reject it)
configFailed_keepsReady(obj) ==
    [obj EXCEPT !.FailureReason = ptr("ClusterConfigNotFound"),
                !.FailureMessage = ptr("Failed to get cluster config")]

\* faulty variant of configFailed: the failure reason is recorded without a
\* message (C37 must reject it)
configFailed_noMessage(obj) ==
    [obj EXCEPT !.Ready = FALSE,
                !.FailureReason = ptr("ClusterConfigNotFound")]

\* reconcileNormal, the status written when GetClusterConfig fails
configFailed(obj) ==
    [obj EXCEPT !.Ready = FALSE,
                !.FailureReason = ptr("ClusterConfigNotFound"),
                !.FailureMessage = ptr("Failed to get cluster config")]

\* faulty variant of the configuration step of reconcileNormal: the Cluster
\* reconciler makes sure of the primary node by an AddNode call (C29 must
\* reject it)
Cluster_reconcileConfig_addsPrimary(clusterObj, obj, hostNodes, cfg) ==
    LET profileName == profileNameOf(clusterObj, obj)
        clusterConfig == GetClusterConfig(profileName, hostNodes, cfg)
        c1 == <<ConfigCall(profileName, clusterConfig)>>
        newNode == [Name |-> Name(1), Worker |-> FALSE, ControlPlane |-> TRUE,
                    KubernetesVersion |-> clusterConfig.KubernetesVersion]
    IN  IF ~clusterConfig.ok
        THEN Outcome(configFailed(obj), hostNodes, c1, Result(FALSE, TRUE))
        ELSE Outcome([setEndpoint(obj, clusterConfig) EXCEPT
                                 !.Ready = TRUE,
                                 !.FailureReason = nil,
                                 !.FailureMessage = nil],
                     AddNodeEffect(profileName, hostNodes, Name(1), "ok"),
                     Append(c1, AddCall(profileName, newNode, FALSE, TRUE)),
                     Result(FALSE, FALSE))

\* reconcileNormal after the finalizer check: the profile name, the
\* configuration query, the endpoint and the status
Cluster_reconcileConfig(clusterObj, obj, hostNodes, cfg) ==
    LET profileName == profileNameOf(clusterObj, obj)
        clusterConfig == GetClusterConfig(profileName, hostNodes, cfg)
        c1 == <<ConfigCall(profileName, clusterConfig)>>
    IN  IF ~clusterConfig.ok
        THEN Outcome(configFailed(obj), hostNodes, c1, Result(FALSE, TRUE))
        ELSE Outcome([setEndpoint(obj, clusterConfig) EXCEPT
                                 !.Ready = TRUE,
                                 !.FailureReason = nil,
                                 !.FailureMessage = nil],
                     hostNodes, c1, Result(FALSE, FALSE))

\* faulty variant of reconcileNormal: the finalizer is added and the pass goes
\* on to query the configuration (C20 must reject it)
Cluster_reconcileNormal_noEarlyReturn(clusterObj, obj, hostNodes, cfg) ==
    Cluster_reconcileConfig(clusterObj, [obj EXCEPT !.Finalizers = TRUE],
                            hostNodes, cfg)

Cluster_reconcileNormal(clusterObj, obj, hostNodes, cfg) ==
    IF ~obj.Finalizers
    THEN Outcome([obj EXCEPT !.Finalizers = TRUE], hostNodes, <<>>,
                 Result(TRUE, FALSE))
    ELSE Cluster_reconcileConfig(clusterObj, obj, hostNodes, cfg)

\* faulty variant of reconcileDelete: the deletion cascades to the first node
\* of the profile (C3 must reject it)
Cluster_reconcileDelete_cascading(clusterObj, obj, hostNodes) ==
    IF hostNodes = <<>>
    THEN Outcome([obj EXCEPT !.Finalizers = FALSE], hostNodes, <<>>,
                 Result(FALSE, FALSE))
    ELSE Outcome([obj EXCEPT !.Finalizers = FALSE],
                 DeleteNodeEffect(profileNameOf(clusterObj, obj), hostNodes,
                                  hostNodes[1], "ok"),
                 <<Call("DeleteNode", profileNameOf(clusterObj, obj),
                        hostNodes[1], TRUE)>>,
                 Result(FALSE, FALSE))

Cluster_reconcileDelete(clusterObj, obj, hostNodes) ==
    Outcome([obj EXCEPT !.Finalizers = FALSE], hostNodes, <<>>,
            Result(FALSE, FALSE))

\* MinikubeClusterReconciler.Reconcile, up to the deferred patch
Cluster_Reconcile(rd, cfg) ==
    LET obj == mc IN
    IF rd = "errGet" THEN Deferred("getFailed", obj, Result(FALSE, TRUE))
    ELSE IF ~obj.exists THEN Deferred("notFound", obj, Result(FALSE, FALSE))
    ELSE IF ~obj.ownerRef THEN Deferred("noOwner", obj, Result(FALSE, FALSE))
    ELSE IF ~cluster.exists \/ rd = "errOwner"
         THEN Deferred("ownerFailed", obj, Result(FALSE, TRUE))
    ELSE IF IsPaused(cluster, obj) THEN Deferred("paused", obj, Result(FALSE, FALSE))
    ELSE IF obj.DeletionTimestamp
         THEN Patched("delete", obj, Cluster_reconcileDelete(cluster, obj, nodes))
         ELSE Patched("normal", obj, Cluster_reconcileNormal(cluster, obj, nodes, cfg))

-----------------------------------------------------------------------------
(* The API server (Resource Store) *)

\* a MinikubeMachine as the user creates it
NewMachine(m, nodeName) ==
    [exists |-> TRUE, owner |-> "unset", paused |-> FALSE,
     Finalizers |-> FALSE, DeletionTimestamp |-> FALSE,
     NodeName |-> nodeName, ProviderID |-> nil,
     Worker |-> SpecWorker(m), ControlPlane |-> SpecControlPlane(m),
     Phase |-> phaseUnset, Ready |-> FALSE, Addresses |-> <<>>,
     FailureReason |-> nil, FailureMessage |-> nil]

\* the place of a MinikubeMachine the store does not hold
NoMachine(m) == [NewMachine(m, "") EXCEPT !.exists = FALSE]

\* a MinikubeCluster as the user creates it
NewMinikubeCluster(profile) ==
    [exists |-> TRUE, ownerRef |-> FALSE, paused |-> FALSE,
     Finalizers |-> FALSE, DeletionTimestamp |-> FALSE,
     ProfileName |-> profile, Host |-> "", Port |-> 0,
     Ready |-> FALSE, FailureReason |-> nil, FailureMessage |-> nil]

\* the place of the MinikubeCluster when the store does not hold it; the
\* profile name stays, as a MinikubeCluster made again is made from the same
\* manifest
NoMinikubeCluster(profile) == [NewMinikubeCluster(profile) EXCEPT !.exists = FALSE]

\* the store removes an object that is marked for deletion and carries no
\* finalizer
Removable(obj) == obj.DeletionTimestamp /\ ~obj.Finalizers

\* patchHelper.Patch, applied: the store holds the object as the pass left it
StoredMachine(m, obj) == IF Removable(obj) THEN NoMachine(m) ELSE obj

StoredCluster(obj) ==
    IF Removable(obj) THEN NoMinikubeCluster(obj.ProfileName) ELSE obj

\* the record of a pass: what Reconcile read and did, and whether the
\* deferred patch was applied ("none": the pass returned before the helper)
\* "again" tells a pass that repeated the pass before it, answer for answer,
\* from that pass
PassRecord(kind, key, p, patchOK) ==
    LET rec == [kind |-> kind, key |-> key, path |-> p.path,
                before |-> p.before, after |-> p.after, calls |-> p.calls,
                res |-> p.res,
                patch |-> IF ~p.patch THEN "none"
                          ELSE IF patchOK THEN "applied" ELSE "rejected",
                again |-> FALSE]
    IN  IF last = rec THEN [rec EXCEPT !.again = TRUE] ELSE rec

NoPass == [kind |-> "none"]

-----------------------------------------------------------------------------
(* The inputs of a pass: the answers of the API server and of the          *)
(* HostBridge.  An answer that comes after a failed call is never asked    *)
(* for, so one failure is drawn at a time.                                 *)

OKConfig == [ok |-> TRUE, ip |-> "10.0.0.5", port |-> 8443, version |-> "v1.31.0"]

FailedConfig == [ok |-> FALSE, ip |-> "", port |-> 0, version |-> ""]

OKDescribe == [ok |-> TRUE, ProviderID |-> "p-123", IP |-> "10.0.0.5", Running |-> TRUE]

Answers(rd, cfg, add, desc, del) ==
    [rd |-> rd, cfg |-> cfg, add |-> add, desc |-> desc, del |-> del]

MachineAnswers ==
    {Answers(rd, OKConfig, "ok", OKDescribe, "ok") : rd \in ReadOutcomes \ {"ok"}}
    \cup {Answers("ok", FailedConfig, "ok", OKDescribe, "ok")}
    \cup {Answers("ok", OKConfig, a, OKDescribe, "ok") : a \in AddOutcomes}
    \cup {Answers("ok", OKConfig, "ok", d, "ok") : d \in DescribeOutcomes}
    \cup {Answers("ok", OKConfig, "ok", OKDescribe, d) : d \in DeleteOutcomes}

ClusterAnswers ==
    {Answers(rd, OKConfig, "ok", OKDescribe, "ok") : rd \in {"errGet", "errOwner"}}
    \cup {Answers("ok", c, "ok", OKDescribe, "ok") : c \in ConfigOutcomes}

\* the answers of a store that serves every read, and of a HostBridge of
\* which one call at a time succeeds or fails
PlainAnswers ==
    {Answers("ok", OKConfig, "ok", OKDescribe, "ok"),
     Answers("ok", FailedConfig, "ok", OKDescribe, "ok"),
     Answers("ok", OKConfig, "fail", OKDescribe, "ok"),
     Answers("ok", OKConfig, "ok",
             [ok |-> FALSE, ProviderID |-> "", IP |-> "", Running |-> FALSE], "ok"),
     Answers("ok", OKConfig, "ok", [OKDescribe EXCEPT !.ProviderID = ""], "ok"),
     Answers("ok", OKConfig, "ok", OKDescribe, "fail")}

-----------------------------------------------------------------------------
(* Reconcile passes *)

\* the model forms no ordinal above MaxOrd
OrdinalInRange ==
    IF nodes = <<>> THEN TRUE ELSE ID(nodes[Len(nodes)]) < MaxOrd

\* one pass of MinikubeMachineReconciler.Reconcile for key m, with the
\* deferred patch; the store and the HostBridge answer as one of answers and
\* the patch, if one is sent, ends as one of patches (TRUE: applied)
MachinePassStep(m, answers, patches) ==
    /\ OrdinalInRange
    /\ \E a \in answers, patchOK \in patches :
        LET p == Machine_Reconcile(m, a.rd, a.cfg, a.add, a.desc, a.del) IN
        /\ mm' = IF p.patch /\ patchOK
                 THEN [mm EXCEPT ![m] = StoredMachine(m, p.after)]
                 ELSE mm
        /\ nodes' = p.nodes
        /\ last' = PassRecord("machine", m, p, patchOK)
        /\ UNCHANGED <<cluster, mc>>

\* a Machine pass run on its own, outside the work queue
MachineReconcileWith(m, answers, patches) ==
    MachinePassStep(m, answers, patches) /\ UNCHANGED <<sched, added>>

MachineReconcile(m) == MachineReconcileWith(m, MachineAnswers, BOOLEAN)

\* the AddNode calls of a pass that succeeded, as <<key, name>>
AddedBy(pass) ==
    {<<pass.key, pass.calls[i].name>> :
        i \in {j \in DOMAIN pass.calls :
                  pass.calls[j].op = "AddNode" /\ pass.calls[j].ok}}

\* a Machine pass whose successful AddNode calls are added to the history
MachineReconcileTracked(m, answers, patches) ==
    /\ MachinePassStep(m, answers, patches)
    /\ added' = added \cup AddedBy(last')
    /\ UNCHANGED sched

\* one pass of MinikubeClusterReconciler.Reconcile, with the deferred patch,
\* the store and the HostBridge answering as one of answers and the patch
\* ending as one of patches
ClusterPassStep(answers, patches) ==
    \E a \in answers, patchOK \in patches :
        LET p == Cluster_Reconcile(a.rd, a.cfg) IN
        /\ mc' = IF p.patch /\ patchOK THEN StoredCluster(p.after) ELSE mc
        /\ nodes' = p.nodes
        /\ last' = PassRecord("cluster", ClusterName, p, patchOK)
        /\ UNCHANGED <<cluster, mm>>

\* a Cluster pass run on its own, outside the work queue
ClusterReconcileWith(answers, patches) ==
    ClusterPassStep(answers, patches) /\ UNCHANGED <<sched, added>>

ClusterReconcile == ClusterReconcileWith(ClusterAnswers, BOOLEAN)

-----------------------------------------------------------------------------
(* The Reconciliation Scheduler: a work queue of keys and a pool of        *)
(* workers.  A key with a notification not yet picked up is dirty; a dirty *)
(* key waits in the queue unless a pass of it is in flight.                *)

\* the keys the manager reconciles: the MinikubeMachines and the
\* MinikubeCluster
Keys == Machines \cup {ClusterName}

idle == "idle"

IdleQueue ==
    [dirty |-> {}, queue |-> <<>>, processing |-> [w \in Workers |-> idle]]

\* a pass of key k is in flight
InFlight(q, k) == \E w \in Workers : q.processing[w] = k

\* faulty variant of Add: a key not in the queue is put there though a pass
\* of it is in flight (C11 must reject it)
Add_whileInFlight(q, k) ==
    IF k \in Range(q.queue)
    THEN q
    ELSE [q EXCEPT !.dirty = @ \cup {k}, !.queue = Append(@, k)]

\* a notification for key k: dropped when k is dirty already, else k becomes
\* dirty and, unless a pass of it is in flight, joins the queue
Add(q, k) ==
    IF k \in q.dirty
    THEN q
    ELSE [q EXCEPT !.dirty = @ \cup {k},
                   !.queue = IF InFlight(q, k) THEN @ ELSE Append(@, k)]

\* worker w takes the key at the head of the queue
Get(q, w) ==
    [q EXCEPT !.processing[w] = Head(q.queue),
              !.queue = Tail(@),
              !.dirty = @ \ {Head(q.queue)}]

\* worker w is done with its key; the key joins the queue again when a
\* notification arrived during the pass
Done(q, w) ==
    [q EXCEPT !.processing[w] = idle,
              !.queue = IF q.processing[w] \in q.dirty
                        THEN Append(@, q.processing[w])
                        ELSE @]

\* the pass asked for another one: it returned an error or Requeue, or its
\* applied patch changed the object, which the watch reports
AsksForPass(pass) ==
    \/ pass.res.err
    \/ pass.res.Requeue
    \/ pass.patch = "applied" /\ pass.after # pass.before

\* a change notification for key k reaches the scheduler
Notify(k) ==
    /\ sched' = Add(sched, k)
    /\ UNCHANGED <<cluster, mc, mm, nodes, last, added>>

\* an idle worker starts a pass of the next key
StartPass(w) ==
    /\ sched.processing[w] = idle
    /\ sched.queue # <<>>
    /\ sched' = Get(sched, w)
    /\ UNCHANGED <<cluster, mc, mm, nodes, last, added>>

\* the answers to the passes the workers run: every call succeeds, or the
\* configuration query fails; the store applies the patches
WorkerAnswers ==
    {Answers("ok", OKConfig, "ok", OKDescribe, "ok"),
     Answers("ok", FailedConfig, "ok", OKDescribe, "ok")}

\* worker w runs the reconciler of its key and finishes the pass
FinishPass(w) ==
    /\ sched.processing[w] # idle
    /\ IF sched.processing[w] \in Machines
       THEN MachinePassStep(sched.processing[w], WorkerAnswers, {TRUE})
       ELSE ClusterPassStep(WorkerAnswers, {TRUE})
    /\ sched' = Done(IF AsksForPass(last')
                     THEN Add(sched, sched.processing[w])
                     ELSE sched, w)
    /\ UNCHANGED added

-----------------------------------------------------------------------------------------------------------------------------------------------------
(* The users, the Cluster API core controllers and the host.  The model    *)
(* disturbs the reconcilers' surroundings one disturbance at a time: a new *)
(* one starts only while everything else is in place.                      *)

\* node names a user may give a MinikubeMachine
UserNodeNames == {"", Name(2), CustomName}

\* node lists the profile may start with
InitialNodeLists ==
    {<<>>, <<Name(1)>>, <<Name(1), Name(2)>>, <<Name(1), CustomName>>}

\* nothing the reconcilers rely on is missing or paused
Undisturbed ==
    /\ cluster.exists /\ ~cluster.Paused
    /\ mc.exists /\ ~mc.paused
    /\ \A m \in Machines : mm[m].owner # "gone" /\ ~mm[m].paused

\* kubectl delete minikubemachine
RequestDeleteMachine(m) ==
    /\ mm[m].exists /\ ~mm[m].DeletionTimestamp
    /\ mm' = [mm EXCEPT ![m] =
                StoredMachine(m, [mm[m] EXCEPT !.DeletionTimestamp = TRUE])]
    /\ last' = NoPass
    /\ UNCHANGED <<cluster, mc, nodes, sched, added>>

\* kubectl delete minikubecluster
RequestDeleteCluster ==
    /\ Undisturbed
    /\ ~mc.DeletionTimestamp
    /\ mc' = StoredCluster([mc EXCEPT !.DeletionTimestamp = TRUE])
    /\ last' = NoPass
    /\ UNCHANGED <<cluster, mm, nodes, sched, added>>

\* the MinikubeCluster is made again after its removal
CreateMinikubeCluster ==
    /\ ~mc.exists
    /\ mc' = NewMinikubeCluster(mc.ProfileName)
    /\ last' = NoPass
    /\ UNCHANGED <<cluster, mm, nodes, sched, added>>

\* the Cluster controller sets the owner reference on the MinikubeCluster
SetClusterOwner ==
    /\ mc.exists /\ ~mc.ownerRef /\ cluster.exists
    /\ mc' = [mc EXCEPT !.ownerRef = TRUE]
    /\ last' = NoPass
    /\ UNCHANGED <<cluster, mm, nodes, sched, added>>

\* the Machine controller sets the owner reference on the MinikubeMachine
SetMachineOwner(m) ==
    /\ mm[m].exists /\ mm[m].owner = "unset"
    /\ mm' = [mm EXCEPT ![m].owner = "present"]
    /\ last' = NoPass
    /\ UNCHANGED <<cluster, mc, nodes, sched, added>>

\* the owning Machine is removed from the store
RemoveMachineOwner(m) ==
    /\ Undisturbed
    /\ mm[m].exists /\ mm[m].owner = "present"
    /\ mm' = [mm EXCEPT ![m].owner = "gone"]
    /\ last' = NoPass
    /\ UNCHANGED <<cluster, mc, nodes, sched, added>>

\* the owning Cluster is removed, or made again
ToggleCluster ==
    /\ Undisturbed \/ ~cluster.exists
    /\ cluster' = [cluster EXCEPT !.exists = ~cluster.exists]
    /\ last' = NoPass
    /\ UNCHANGED <<mc, mm, nodes, sched, added>>

\* spec.paused of the Cluster is set, or cleared
PauseCluster ==
    /\ Undisturbed \/ cluster.Paused
    /\ cluster' = [cluster EXCEPT !.Paused = ~cluster.Paused]
    /\ last' = NoPass
    /\ UNCHANGED <<mc, mm, nodes, sched, added>>

\* the paused annotation of the MinikubeCluster is set, or cleared
PauseMinikubeCluster ==
    /\ Undisturbed \/ (mc.exists /\ mc.paused)
    /\ mc' = [mc EXCEPT !.paused = ~mc.paused]
    /\ last' = NoPass
    /\ UNCHANGED <<cluster, mm, nodes, sched, added>>

\* the paused annotation of a MinikubeMachine is set, or cleared
PauseMachine(m) ==
    /\ mm[m].exists
    /\ Undisturbed \/ mm[m].paused
    /\ mm' = [mm EXCEPT ![m].paused = ~mm[m].paused]
    /\ last' = NoPass
    /\ UNCHANGED <<cluster, mc, nodes, sched, added>>

\* minikube node add, run on the host: the next canonical name or a name of
\* the user's own
HostNodeAdded ==
    /\ Len(nodes) < MaxNodes
    /\ \E n \in {Name(Len(nodes) + 1), CustomName} \ Range(nodes) :
         nodes' = Append(nodes, n)
    /\ last' = NoPass
    /\ UNCHANGED <<cluster, mc, mm, sched, added>>

\* minikube node delete, run on the host
HostNodeRemoved ==
    /\ \E n \in Range(nodes) : nodes' = SelectSeq(nodes, LAMBDA x : x # n)
    /\ last' = NoPass
    /\ UNCHANGED <<cluster, mc, mm, sched, added>>

-----------------------------------------------------------------------------
(* The specifications *)

Init ==
    /\ cluster = [exists |-> TRUE, Paused |-> FALSE, Name |-> ClusterName]
    /\ \E profile \in {"", ExplicitProfile} : mc = NewMinikubeCluster(profile)
    /\ \E f \in [Machines -> UserNodeNames] :
         mm = [m \in Machines |-> NewMachine(m, f[m])]
    /\ nodes \in InitialNodeLists
    /\ last = NoPass
    /\ sched = IdleQueue
    /\ added = {}

Next ==
    \/ \E m \in Machines : MachineReconcile(m)
    \/ ClusterReconcile
    \/ \E m \in Machines : RequestDeleteMachine(m)
    \/ RequestDeleteCluster
    \/ CreateMinikubeCluster
    \/ SetClusterOwner
    \/ \E m \in Machines : SetMachineOwner(m)
    \/ \E m \in Machines : RemoveMachineOwner(m)
    \/ ToggleCluster
    \/ PauseCluster
    \/ PauseMinikubeCluster
    \/ \E m \in Machines : PauseMachine(m)
    \/ HostNodeAdded
    \/ HostNodeRemoved

\* the whole system
Spec == Init /\ [][Next]_vars

\* the Machine reconciler and what it reads of the store; the host's node list
\* changes by the reconciler's own AddNode and DeleteNode calls
MachineNext ==
    \/ \E m \in Machines : MachineReconcile(m)
    \/ \E m \in Machines : RequestDeleteMachine(m)
    \/ RequestDeleteCluster
    \/ CreateMinikubeCluster
    \/ \E m \in Machines : SetMachineOwner(m)
    \/ \E m \in Machines : RemoveMachineOwner(m)
    \/ ToggleCluster
    \/ PauseCluster
    \/ \E m \in Machines : PauseMachine(m)

MachineSpec == Init /\ [][MachineNext]_vars

\* the Cluster reconciler and everything it reads
ClusterNext ==
    \/ ClusterReconcile
    \/ RequestDeleteCluster
    \/ CreateMinikubeCluster
    \/ SetClusterOwner
    \/ ToggleCluster
    \/ PauseCluster
    \/ PauseMinikubeCluster
    \/ HostNodeAdded
    \/ HostNodeRemoved

\* the machines take no part: they start as the plain manifest
ClusterInit == Init /\ \A m \in Machines : mm[m].NodeName = ""

ClusterSpec == ClusterInit /\ [][ClusterNext]_vars

\* a Machine from creation to readiness: the Machine reconciler, the owner
\* reference, the pause annotation
ConvergeInit ==
    /\ Init
    /\ mc.ProfileName = ""
    /\ nodes = <<Name(1)>>

ConvergeNext ==
    \/ \E m \in Machines : MachineReconcileWith(m, PlainAnswers, BOOLEAN)
    \/ \E m \in Machines : SetMachineOwner(m)
    \/ \E m \in Machines : PauseMachine(m)

\* the scheduler runs a pass of a key again and again (requeue, watch events,
\* resync), and the API server does not reject the key's patches forever
ConvergeSpec ==
    /\ ConvergeInit /\ [][ConvergeNext]_vars
    /\ \A m \in Machines :
         WF_vars(MachineReconcileWith(m, PlainAnswers, {TRUE}))

\* a Machine and its MinikubeCluster from creation to teardown: both
\* reconcilers, the owner references, the deletion requests; nothing is paused
TeardownInit ==
    /\ Init
    /\ mc.ProfileName = ""
    /\ nodes = <<Name(1)>>
    /\ \A m \in Machines : mm[m].NodeName = ""

TeardownNext ==
    \/ \E m \in Machines : MachineReconcileWith(m, PlainAnswers, BOOLEAN)
    \/ ClusterReconcileWith(PlainAnswers, BOOLEAN)
    \/ \E m \in Machines : RequestDeleteMachine(m)
    \/ RequestDeleteCluster
    \/ SetClusterOwner
    \/ \E m \in Machines : SetMachineOwner(m)

TeardownSpec ==
    /\ TeardownInit /\ [][TeardownNext]_vars
    /\ \A m \in Machines :
         WF_vars(MachineReconcileWith(m, PlainAnswers, {TRUE}))
    /\ WF_vars(ClusterReconcileWith(PlainAnswers, {TRUE}))

\* the answers of a store of which one read at a time may fail, and of a
\* HostBridge of which one call at a time may fail
ManagerAnswers ==
    PlainAnswers \cup
    {Answers(rd, OKConfig, "ok", OKDescribe, "ok") : rd \in ReadOutcomes \ {"ok"}}

\* both reconcilers under one manager, with the owner references, the pause
\* marks and the deletion requests
ManagerInit ==
    /\ Init
    /\ mc.ProfileName = ""
    /\ nodes = <<Name(1)>>
    /\ \A m \in Machines : mm[m].NodeName = ""

ManagerNext ==
    \/ \E m \in Machines : MachineReconcileWith(m, ManagerAnswers, BOOLEAN)
    \/ ClusterReconcileWith(ManagerAnswers, BOOLEAN)
    \/ \E m \in Machines : RequestDeleteMachine(m)
    \/ RequestDeleteCluster
    \/ SetClusterOwner
    \/ \E m \in Machines : SetMachineOwner(m)
    \/ PauseCluster
    \/ PauseMinikubeCluster
    \/ \E m \in Machines : PauseMachine(m)

ManagerSpec == ManagerInit /\ [][ManagerNext]_vars

\* the scheduler driving both reconcilers: the owner references are set, the
\* watch notifies, the workers start and finish passes
SchedInit ==
    /\ cluster = [exists |-> TRUE, Paused |-> FALSE, Name |-> ClusterName]
    /\ mc = [NewMinikubeCluster("") EXCEPT !.ownerRef = TRUE]
    /\ mm = [m \in Machines |-> [NewMachine(m, "") EXCEPT !.owner = "present"]]
    /\ nodes = <<Name(1)>>
    /\ last = NoPass
    /\ sched = IdleQueue
    /\ added = {}

SchedNext ==
    \/ \E k \in Keys : Notify(k)
    \/ \E w \in Workers : StartPass(w)
    \/ \E w \in Workers : FinishPass(w)

\* a worker that can start a pass does, and a pass in flight ends (every
\* blocking call of a pass is bounded by the pass's deadline)
SchedSpec ==
    /\ SchedInit /\ [][SchedNext]_vars
    /\ \A w \in Workers : WF_vars(StartPass(w)) /\ WF_vars(FinishPass(w))

\* the worker flags a user may give a MinikubeMachine
UserWorkerFlags == {nil, ptr(TRUE), ptr(FALSE)}

\* the answers of a HostBridge whose profile runs one or the other Kubernetes
\* version
RequestAnswers ==
    PlainAnswers \cup
    {Answers("ok", [OKConfig EXCEPT !.version = v], "ok", OKDescribe, "ok") :
        v \in KubernetesVersions}

\* the Machine reconciler over Machines of every shape a manifest can give
\* them: node name given or not, worker flag unset, true or false,
\* control-plane flag, explicit or defaulted profile; the owner reference is
\* set
RequestInit ==
    /\ cluster = [exists |-> TRUE, Paused |-> FALSE, Name |-> ClusterName]
    /\ \E profile \in {"", ExplicitProfile} :
         mc = [NewMinikubeCluster(profile) EXCEPT !.ownerRef = TRUE]
    /\ \E n \in UserNodeNames, w \in UserWorkerFlags, c \in BOOLEAN :
         mm = [m \in Machines |->
                 [NewMachine(m, n) EXCEPT !.owner = "present",
                                          !.Worker = w,
                                          !.ControlPlane = c]]
    /\ nodes \in InitialNodeLists
    /\ last = NoPass
    /\ sched = IdleQueue
    /\ added = {}

RequestNext ==
    \/ \E m \in Machines : MachineReconcileWith(m, RequestAnswers, BOOLEAN)
    \/ \E m \in Machines : RequestDeleteMachine(m)

RequestSpec == RequestInit /\ [][RequestNext]_vars

\* both reconcilers over a profile that is named explicitly or after the
\* Cluster: the owner references are set, Machines are provisioned and
\* deleted
ProfileInit ==
    /\ Init
    /\ nodes = <<Name(1)>>
    /\ \A m \in Machines : mm[m].NodeName = ""

ProfileNext ==
    \/ \E m \in Machines : MachineReconcileWith(m, PlainAnswers, BOOLEAN)
    \/ ClusterReconcileWith(PlainAnswers, BOOLEAN)
    \/ \E m \in Machines : RequestDeleteMachine(m)
    \/ SetClusterOwner
    \/ \E m \in Machines : SetMachineOwner(m)

ProfileSpec == ProfileInit /\ [][ProfileNext]_vars

\* the Machine reconciler with the history of its successful AddNode calls:
\* a Machine named by the user or not, over a profile that may hold a node
\* of that name already, is provisioned and deleted
HistoryInit == Init /\ mc.ProfileName = ""

HistoryNext ==
    \/ \E m \in Machines : MachineReconcileTracked(m, PlainAnswers, BOOLEAN)
    \/ \E m \in Machines : RequestDeleteMachine(m)
    \/ \E m \in Machines : SetMachineOwner(m)

HistorySpec == HistoryInit /\ [][HistoryNext]_vars

-----------------------------------------------------------------------------
(* Properties.  Each speaks of the most recent pass: what it read          *)
(* (last.before), what it left in memory (last.after), the HostBridge      *)
(* calls it made, what it returned, and what became of its patch.          *)

MachinePass == last.kind = "machine"

ClusterPass == last.kind = "cluster"

\* the calls of the last pass to one HostBridge operation
CallsTo(op) == {i \in DOMAIN last.calls : last.calls[i].op = op}

\* the provider identifier the pass read was set and not empty
ReadProviderID == last.before.ProviderID \notin {nil, ptr("")}

NoError == Result(FALSE, FALSE)

\* the spec and metadata of a Machine the pass left as it read them
SameMachineSpec ==
    /\ last.after.NodeName = last.before.NodeName
    /\ last.after.ProviderID = last.before.ProviderID
    /\ last.after.Finalizers = last.before.Finalizers
    /\ last.after.Worker = last.before.Worker
    /\ last.after.ControlPlane = last.before.ControlPlane

\* C1 (Idempotence): a pass that reads a Machine with a non-empty provider
\* identifier issues no AddNode call; when it is a normal pass it makes
\* exactly one call, GetNodeInfo for the Machine's node name, and changes
\* only the status.
C1_Idempotence ==
    (MachinePass /\ ReadProviderID) =>
        /\ CallsTo("AddNode") = {}
        /\ CallsTo("GetClusterConfig") = {}
        /\ last.path = "normal" =>
            /\ Len(last.calls) = 1
            /\ last.calls[1].op = "GetNodeInfo"
            /\ last.calls[1].name = last.before.NodeName
            /\ SameMachineSpec

C1_Witness ==
    /\ MachinePass /\ ReadProviderID /\ last.path = "normal"
    /\ last.calls[1].ok
    /\ last.patch = "applied"

\* C2 (Finalizer gating): a normal pass that reads a Machine without the
\* finalizer makes no HostBridge call, adds the finalizer and nothing else,
\* and returns Requeue without error; every AddNode call is made by a pass
\* that read the Machine with the finalizer present.
C2_FinalizerGating ==
    MachinePass =>
        /\ (last.path = "normal" /\ ~last.before.Finalizers) =>
            /\ last.calls = <<>>
            /\ last.after = [last.before EXCEPT !.Finalizers = TRUE]
            /\ last.res = Result(TRUE, FALSE)
        /\ CallsTo("AddNode") # {} => last.before.Finalizers

C2_WitnessBootstrap ==
    /\ MachinePass /\ last.path = "normal" /\ ~last.before.Finalizers
    /\ last.before.Phase = phaseUnset
    /\ last.patch = "applied"

C2_Witness ==
    /\ MachinePass /\ CallsTo("AddNode") # {}
    /\ last.before.Finalizers
    /\ last.before.Phase = phaseUnset

\* C3 (Non-destructive cluster deletion): a Cluster pass that reads the
\* deletion request makes no HostBridge call at all, removes the finalizer
\* and changes nothing else, and returns no error and no requeue.
C3_NonDestructiveDelete ==
    (ClusterPass /\ last.path = "delete") =>
        /\ last.calls = <<>>
        /\ last.after = [last.before EXCEPT !.Finalizers = FALSE]
        /\ last.res = NoError

C3_Witness ==
    /\ ClusterPass /\ last.path = "delete"
    /\ last.before.Ready
    /\ nodes # <<>>
    /\ last.patch = "applied" /\ ~mc.exists

\* C4 (Best-effort teardown): a deletion pass of a Machine with a node name
\* whose DeleteNode call fails still removes the finalizer and returns no
\* error; once its patch is applied the store no longer holds the Machine.
C4_BestEffortTeardown ==
    (/\ MachinePass /\ last.path = "delete"
     /\ last.before.NodeName # ""
     /\ \E i \in CallsTo("DeleteNode") : ~last.calls[i].ok) =>
        /\ ~last.after.Finalizers
        /\ last.res = NoError
        /\ last.patch = "applied" => ~mm[last.key].exists

C4_Witness ==
    /\ MachinePass /\ last.path = "delete"
    /\ last.before.NodeName # "" /\ last.before.Finalizers
    /\ \E i \in CallsTo("DeleteNode") : ~last.calls[i].ok
    /\ last.patch = "applied" /\ ~mm[last.key].exists

\* the GetClusterConfig call of the last pass succeeded
ConfigReturned ==
    /\ CallsTo("GetClusterConfig") # {}
    /\ last.calls[1].op = "GetClusterConfig"
    /\ last.calls[1].ok

\* the configuration the last pass was given names another primary address
\* or another API server port than the endpoint the pass read
ConfigDiffers ==
    /\ ConfigReturned
    /\ last.calls[1].Nodes # <<>>
    /\ last.calls[1].Nodes[1].IP # ""
    /\ \/ last.calls[1].Nodes[1].IP # last.before.Host
       \/ last.calls[1].APIServerPort # last.before.Port

\* C5 (Endpoint set-once): a Cluster pass that reads a non-empty endpoint
\* host leaves host and port as it read them, in memory and in the store,
\* whatever address and port the HostBridge reports.
C5_EndpointSetOnce ==
    (ClusterPass /\ last.before.exists /\ last.before.Host # "") =>
        /\ last.after.Host = last.before.Host
        /\ last.after.Port = last.before.Port
        /\ mc.exists => (mc.Host = last.before.Host /\ mc.Port = last.before.Port)

C5_Witness ==
    /\ ClusterPass /\ last.before.exists /\ last.before.Host # ""
    /\ ConfigDiffers
    /\ last.patch = "applied"

\* the node names 1..k in order
Canonical(k) == [i \in 1..k |-> Name(i)]

\* the name a provisioning pass gave a Machine it read without a node name
GeneratedName == last.after.NodeName

\* the last pass read a Machine with no node name and got the configuration
Generating ==
    /\ MachinePass /\ last.path = "normal"
    /\ last.before.NodeName = ""
    /\ ConfigReturned

\* C6 (Node-name monotonicity): a pass that reads a Machine without a node
\* name and is given the nodes 1..k generates the name of ordinal k+1; given
\* no node, or a last node whose name has no ordinal, it generates the name
\* of ordinal (number of nodes)+1; its AddNode call carries exactly that name.
C6_NodeNameMonotonic ==
    Generating =>
        LET names == [i \in DOMAIN last.calls[1].Nodes |-> last.calls[1].Nodes[i].Name]
        IN  /\ \A k \in 0..MaxNodes :
                names = Canonical(k) => GeneratedName = Name(k + 1)
            /\ (names = <<>> \/ names[Len(names)] = CustomName) =>
                GeneratedName = Name(Len(names) + 1)
            /\ Len(last.calls) >= 2
            /\ last.calls[2].op = "AddNode"
            /\ last.calls[2].name = GeneratedName
            /\ last.calls[2].node.Name = GeneratedName

C6_Witness ==
    /\ Generating
    /\ Len(last.calls[1].Nodes) = 2
    /\ last.calls[1].Nodes[1].Name = Name(1)
    /\ last.calls[1].Nodes[2].Name = Name(2)
    /\ GeneratedName = Name(3)
    /\ last.calls[2].ok
    /\ last.after.Phase = phaseProvisioned

C6_WitnessFallback ==
    /\ Generating
    /\ Len(last.calls[1].Nodes) = 2
    /\ last.calls[1].Nodes[2].Name = CustomName
    /\ GeneratedName = Name(3)

\* C7 (Cluster readiness waits for a node): a Cluster pass whose
\* GetClusterConfig call returns an empty node list leaves the status not
\* ready.
C7_ReadyNeedsNode ==
    (ClusterPass /\ ConfigReturned /\ last.calls[1].Nodes = <<>>) =>
        ~last.after.Ready

\* C8 (Steady-state describe failure): a normal pass that reads a Machine
\* with a provider identifier and phase Provisioned and whose GetNodeInfo call
\* fails leaves the phase Provisioned, sets Ready false, leaves failure
\* reason, failure message and addresses as read, and returns the error.
DescribeFailedSteady ==
    /\ MachinePass /\ last.path = "normal" /\ ReadProviderID
    /\ last.before.Phase = phaseProvisioned
    /\ \E i \in CallsTo("GetNodeInfo") : ~last.calls[i].ok

C8_DescribeFailure ==
    DescribeFailedSteady =>
        /\ last.after.Phase = phaseProvisioned
        /\ ~last.after.Ready
        /\ last.after.FailureReason = last.before.FailureReason
        /\ last.after.FailureMessage = last.before.FailureMessage
        /\ last.after.Addresses = last.before.Addresses
        /\ last.res = Result(FALSE, TRUE)

C8_Witness ==
    /\ DescribeFailedSteady
    /\ last.before.Ready
    /\ last.patch = "applied"
    /\ mm[last.key].Phase = phaseProvisioned /\ ~mm[last.key].Ready

\* everything the Machine reconciler needs is in place for machine m
InPlace(m) ==
    /\ mm[m].exists /\ ~mm[m].DeletionTimestamp /\ ~mm[m].paused
    /\ mm[m].owner = "present"
    /\ cluster.exists /\ ~cluster.Paused
    /\ mc.exists

\* the last pass, if there was one, met no failure: every read and every
\* HostBridge call succeeded, GetNodeInfo gave a provider identifier, and the
\* patch was applied
PassSucceeded ==
    MachinePass =>
        /\ last.path = "normal"
        /\ \A i \in DOMAIN last.calls : last.calls[i].ok
        /\ last.after.ProviderID # ptr("")
        /\ last.patch # "rejected"

Converged(m) ==
    /\ mm[m].exists
    /\ mm[m].Phase = phaseProvisioned
    /\ mm[m].ProviderID \notin {nil, ptr("")}
    /\ mm[m].Ready

CleanupPending(m) ==
    mm[m].exists /\ mm[m].DeletionTimestamp /\ mm[m].Finalizers /\ ~mm[m].paused

\* C10 (Machine cleanup always completes): under fair retries, once the
\* deletion of a Machine that carries the finalizer is requested, the
\* finalizer is eventually removed and the store lets the Machine go, in
\* whatever order its owner, its Cluster and its MinikubeCluster come and go.
C10_CleanupCompletes ==
    \A m \in Machines : CleanupPending(m) ~> ~mm[m].exists

\* C14 (Node name is assigned once): a pass that reads a Machine with a node
\* name leaves that name in the object it writes and in the store, on the
\* provisioning path, on the describe path and on the deletion path.
C14_NodeNameAssignedOnce ==
    (MachinePass /\ last.before.exists /\ last.before.NodeName # "") =>
        /\ last.after.NodeName = last.before.NodeName
        /\ mm[last.key].exists => mm[last.key].NodeName = last.before.NodeName

\* a pass that provisions again after a failure, with the name of the failed
\* attempt, while the profile has grown past that name's ordinal
C14_Witness ==
    /\ MachinePass /\ last.path = "normal"
    /\ last.before.Phase = phaseFailed
    /\ last.before.NodeName # ""
    /\ CallsTo("AddNode") # {}
    /\ nextNodeName(last.calls[1].Nodes) # last.before.NodeName
    /\ last.patch = "applied"

\* a provisioning pass: a normal pass that read the finalizer and no provider
\* identifier
Provisioning ==
    /\ MachinePass /\ last.path = "normal"
    /\ last.before.Finalizers /\ ~ReadProviderID

\* C17 (Provisioning failure classification): a provisioning pass whose
\* GetClusterConfig call fails makes no AddNode call and ends Failed with
\* reason ClusterConfigNotFound; one whose AddNode call fails ends Failed with
\* reason NodeProvisionFailed; both return the error and leave the provider
\* identifier as read, unset.
C17_FailureClassification ==
    Provisioning =>
        /\ (~last.calls[1].ok) =>
              /\ Len(last.calls) = 1
              /\ last.after.Phase = phaseFailed
              /\ last.after.FailureReason = ptr("ClusterConfigNotFound")
              /\ last.after.FailureMessage # nil
              /\ last.res = Result(FALSE, TRUE)
              /\ last.after.ProviderID = last.before.ProviderID
        /\ (\E i \in CallsTo("AddNode") : ~last.calls[i].ok) =>
              /\ CallsTo("GetNodeInfo") = {}
              /\ last.after.Phase = phaseFailed
              /\ last.after.FailureReason = ptr("NodeProvisionFailed")
              /\ last.after.FailureMessage # nil
              /\ last.res = Result(FALSE, TRUE)
              /\ last.after.ProviderID = last.before.ProviderID

\* a provisioning pass whose AddNode call failed after an earlier pass had
\* failed at GetClusterConfig
C17_Witness ==
    /\ Provisioning
    /\ last.before.FailureReason = ptr("ClusterConfigNotFound")
    /\ \E i \in CallsTo("AddNode") : ~last.calls[i].ok
    /\ last.patch = "applied"
    /\ mm[last.key].Phase = phaseFailed

\* a normal Cluster pass that read the finalizer: the pass queries the
\* profile's configuration
ConfigPass ==
    /\ ClusterPass /\ last.path = "normal" /\ last.before.Finalizers

\* C16 (Cluster config failure): a normal Cluster pass that read the finalizer
\* and whose GetClusterConfig call fails leaves Ready false, the failure
\* reason ClusterConfigNotFound, a failure message and the endpoint as read,
\* and returns the error.
C16_ConfigFailure ==
    (ConfigPass /\ ~last.calls[1].ok) =>
        /\ ~last.after.Ready
        /\ last.after.FailureReason = ptr("ClusterConfigNotFound")
        /\ last.after.FailureMessage # nil
        /\ last.after.Host = last.before.Host
        /\ last.after.Port = last.before.Port
        /\ last.res = Result(FALSE, TRUE)

\* a failed query over a Cluster that was ready with its endpoint set
C16_Witness ==
    /\ ConfigPass /\ ~last.calls[1].ok
    /\ last.before.Ready /\ last.before.Host # ""
    /\ last.patch = "applied" /\ ~mc.Ready

\* C19 (Endpoint derivation and success status): a normal Cluster pass whose
\* GetClusterConfig call succeeds with a first node that has an address sets
\* an empty endpoint to that address and the configured API server port, and
\* ends with Ready true and failure reason and message cleared.
C19_EndpointDerivation ==
    (/\ ConfigPass /\ ConfigReturned
     /\ last.calls[1].Nodes # <<>>
     /\ last.calls[1].Nodes[1].IP # "") =>
        /\ last.before.Host = "" =>
              /\ last.after.Host = last.calls[1].Nodes[1].IP
              /\ last.after.Port = last.calls[1].APIServerPort
        /\ last.after.Ready
        /\ last.after.FailureReason = nil
        /\ last.after.FailureMessage = nil

\* the endpoint derived as 10.0.0.5:8443, and as another address and port,
\* after an earlier failure had been recorded
C19_Witness ==
    /\ ConfigPass /\ ConfigReturned
    /\ last.before.Host = "" /\ last.before.FailureReason # nil
    /\ last.patch = "applied"
    /\ \/ mc.Host = "10.0.0.5" /\ mc.Port = 8443
       \/ mc.Host = "10.0.0.6" /\ mc.Port = 8444

\* C20 (Cluster finalizer bootstrap): a normal Cluster pass that reads the
\* MinikubeCluster without the finalizer makes no HostBridge call, adds the
\* finalizer and changes nothing else, and returns Requeue without error;
\* a GetClusterConfig call and a change of Ready, failure fields or endpoint
\* happen only in passes that read the finalizer.
C20_ClusterFinalizerBootstrap ==
    (ClusterPass /\ last.path = "normal") =>
        /\ (~last.before.Finalizers) =>
              /\ last.calls = <<>>
              /\ last.after = [last.before EXCEPT !.Finalizers = TRUE]
              /\ last.res = Result(TRUE, FALSE)
        /\ (\/ last.calls # <<>>
            \/ last.after.Ready # last.before.Ready
            \/ last.after.FailureReason # last.before.FailureReason
            \/ last.after.FailureMessage # last.before.FailureMessage
            \/ last.after.Host # last.before.Host
            \/ last.after.Port # last.before.Port) => last.before.Finalizers

\* the bootstrap pass, applied, followed by nothing yet
C20_Witness ==
    /\ ClusterPass /\ last.path = "normal" /\ ~last.before.Finalizers
    /\ last.patch = "applied"
    /\ mc.Finalizers /\ ~mc.Ready /\ mc.Host = ""

AnyPass == MachinePass \/ ClusterPass

\* the object of the last pass, as the store holds it now
Stored == IF MachinePass THEN mm[last.key] ELSE mc

\* the finalizer-bootstrap step: a normal pass that read no finalizer
Bootstrap == last.path = "normal" /\ ~last.before.Finalizers

\* the provisioning step after a successful AddNode whose GetNodeInfo failed
DescribeAfterAddFailed ==
    /\ Provisioning
    /\ \E i \in CallsTo("AddNode") : last.calls[i].ok
    /\ \E i \in CallsTo("GetNodeInfo") : ~last.calls[i].ok

\* C12 (Requeue policy, as first stated): a pass asks for an immediate
\* re-pass in the finalizer-bootstrap step and in no other step.
C12_RequeueOnlyAtBootstrap ==
    AnyPass => (last.res.Requeue <=> Bootstrap)

\* C12 (Requeue policy): a pass never returns both an error and a request for
\* a re-pass; it asks for an immediate re-pass in the finalizer-bootstrap step
\* of either reconciler and in the Machine provisioning step whose
\* GetNodeInfo fails after a successful AddNode, and in no other step.
C12_RequeuePolicy ==
    AnyPass =>
        /\ ~(last.res.Requeue /\ last.res.err)
        /\ last.res.Requeue <=> (Bootstrap \/ DescribeAfterAddFailed)

\* a Cluster pass at the bootstrap step that asked for the re-pass, over a
\* Machine whose provisioning had asked for one as well
C12_Witness ==
    /\ ClusterPass /\ Bootstrap /\ last.res.Requeue
    /\ \E m \in Machines :
         mm[m].exists /\ mm[m].Phase = phaseProvisioning /\ mm[m].NodeName # ""

\* C13 (Conflict handling): a pass whose write-back the store rejected, with
\* changes in it, returns an error or asks for a re-pass, so that the
\* scheduler runs the key again.
C13_ConflictRetried ==
    (AnyPass /\ last.patch = "rejected" /\ last.after # last.before) =>
        (last.res.err \/ last.res.Requeue)

\* C15 (Pause): a pass over an object that is paused, or whose Cluster is
\* paused, makes no HostBridge call and leaves the object as it read it, in
\* memory and in the store; unless a read before the pause check failed, it
\* returns no error and no request for a re-pass.  Deletion requests make no
\* difference.
C15_Pause ==
    (AnyPass /\ last.before.exists /\ (cluster.Paused \/ last.before.paused)) =>
        /\ last.calls = <<>>
        /\ last.after = last.before
        /\ Stored = last.before
        /\ last.patch = "none"
        /\ last.path \notin {"getFailed", "ownerFailed"} => last.res = NoError

\* a pass over a paused Machine that has the finalizer, a node and a deletion
\* request
C15_Witness ==
    /\ MachinePass /\ last.path = "paused"
    /\ last.before.DeletionTimestamp /\ last.before.Finalizers
    /\ last.before.NodeName # ""

\* a pass over a MinikubeCluster, deletion requested, whose Cluster is paused
C15_WitnessCluster ==
    /\ ClusterPass /\ last.path = "paused"
    /\ cluster.Paused /\ ~last.before.paused

\* a read of the last pass failed though the object it asked for exists
TransientReadFailure ==
    \/ AnyPass /\ last.path = "getFailed"
    \/ MachinePass /\ last.path = "ownerFailed" /\ last.before.owner = "present"
    \/ ClusterPass /\ last.path = "ownerFailed" /\ cluster.exists
    \/ MachinePass /\ last.path = "noCluster" /\ cluster.exists
    \/ MachinePass /\ last.path = "noInfra" /\ mc.exists

\* C18 (Transient Resource Store failures are surfaced): a pass one of whose
\* reads failed for another reason than the object's absence returns an
\* error.
C18_TransientSurfaced ==
    TransientReadFailure => last.res.err

\* no two workers run a pass of the same key
AtMostOneActive ==
    \A w1, w2 \in Workers :
        (w1 # w2 /\ sched.processing[w1] # idle) =>
            sched.processing[w1] # sched.processing[w2]

\* a notification not yet picked up is kept: its key waits in the queue, or,
\* while a pass of the key is in flight, outside the queue until that pass
\* ends
NotificationKept ==
    \A k \in sched.dirty : (k \in Range(sched.queue)) # InFlight(sched, k)

\* C11 (At-most-one-active reconcile): no two passes of one key are in flight
\* at once; a notification that arrives for a key, also during a pass of that
\* key, is kept and leads to a pass of the key that starts after the pass in
\* flight has ended.
C11_AtMostOneActive ==
    /\ [](AtMostOneActive /\ NotificationKept)
    /\ \A k \in Keys :
         (k \in sched.dirty) ~> (InFlight(sched, k) /\ k \notin sched.dirty)

\* passes of two keys in flight at once, while a notification that arrived
\* for the Machine during its pass waits outside the queue
C11_Witness ==
    /\ \E w1, w2 \in Workers :
         sched.processing[w1] \in Machines /\ sched.processing[w2] = ClusterName
    /\ \E m \in Machines : m \in sched.dirty /\ InFlight(sched, m)
    /\ last.kind # "none"

\* C21 (Describe failure after a successful add): a provisioning pass whose
\* AddNode call succeeds and whose GetNodeInfo call fails ends with phase
\* Provisioning, the node name of the AddNode call in the spec, the provider
\* identifier, Ready, the addresses and the failure fields as read, and
\* returns Requeue without error.
C21_DescribeAfterAdd ==
    DescribeAfterAddFailed =>
        /\ last.after.Phase = phaseProvisioning
        /\ last.after.ProviderID = last.before.ProviderID
        /\ ~nodeAlreadyExists(last.after)
        /\ last.after.Ready = last.before.Ready
        /\ last.after.Addresses = last.before.Addresses
        /\ last.after.FailureReason = last.before.FailureReason
        /\ last.after.FailureMessage = last.before.FailureMessage
        /\ \E i \in CallsTo("AddNode") : last.after.NodeName = last.calls[i].name
        /\ last.res = Result(TRUE, FALSE)

\* such a pass over a Machine that was not ready yet, its patch applied: the
\* store holds the Machine in phase Provisioning, named and not ready, while
\* the node is in the profile
C21_Witness ==
    /\ DescribeAfterAddFailed
    /\ ~last.before.Ready /\ last.before.NodeName = ""
    /\ last.patch = "applied"
    /\ mm[last.key].Phase = phaseProvisioning /\ ~mm[last.key].Ready
    /\ mm[last.key].NodeName \in Range(nodes)

\* the AddNode call and the GetNodeInfo call of the last pass both succeeded
AddAndDescribeOK ==
    /\ \E i \in CallsTo("AddNode") : last.calls[i].ok
    /\ \E i \in CallsTo("GetNodeInfo") : last.calls[i].ok

\* C22 (Provisioning success): a provisioning pass ends with phase Provisioned
\* exactly when its AddNode call and its GetNodeInfo call both succeeded; that
\* pass writes the provider identifier GetNodeInfo returned into the spec,
\* sets Ready true and the address list to the address GetNodeInfo returned,
\* and clears failure reason and message.
C22_ProvisioningSuccess ==
    Provisioning =>
        /\ last.after.Phase = phaseProvisioned <=> AddAndDescribeOK
        /\ AddAndDescribeOK =>
             \E i \in CallsTo("GetNodeInfo") :
                /\ last.calls[i].name = last.after.NodeName
                /\ last.after.ProviderID = ptr(last.calls[i].ProviderID)
                /\ last.after.Ready
                /\ last.after.Addresses = <<last.calls[i].IP>>
                /\ last.after.FailureReason = nil
                /\ last.after.FailureMessage = nil

\* a successful provisioning after a failed attempt, its patch applied: the
\* store holds the provider identifier and no failure
C22_Witness ==
    /\ Provisioning /\ AddAndDescribeOK
    /\ last.before.FailureReason # nil /\ ~last.before.Ready
    /\ last.patch = "applied"
    /\ mm[last.key].ProviderID = ptr("p-123")
    /\ mm[last.key].Phase = phaseProvisioned /\ mm[last.key].Ready
    /\ mm[last.key].FailureReason = nil

\* the effective profile identifier of the MinikubeCluster the pass used
EffectiveProfile ==
    IF mc.ProfileName # "" THEN mc.ProfileName ELSE cluster.Name

\* C23 (Machine deletion path): a Machine pass that takes the deletion path
\* sets phase Deleting and removes the finalizer, changing nothing else; when
\* the node name is not empty it makes exactly one HostBridge call, DeleteNode
\* for the effective profile and that node name, and when it is empty it makes
\* no call; it returns no error.
C23_DeletionPath ==
    (MachinePass /\ last.path = "delete") =>
        /\ last.after = [last.before EXCEPT !.Phase = phaseDeleting,
                                            !.Finalizers = FALSE]
        /\ IF last.before.NodeName # ""
           THEN /\ Len(last.calls) = 1
                /\ last.calls[1].op = "DeleteNode"
                /\ last.calls[1].profile = EffectiveProfile
                /\ last.calls[1].name = last.before.NodeName
           ELSE last.calls = <<>>
        /\ last.res = NoError

\* the deletion of a provisioned Machine: the node left the profile and the
\* store let the Machine go
C23_Witness ==
    /\ MachinePass /\ last.path = "delete"
    /\ last.before.Finalizers /\ last.before.Phase = phaseProvisioned
    /\ last.before.NodeName # "" /\ last.calls[1].ok
    /\ last.before.NodeName \notin Range(nodes)
    /\ last.patch = "applied" /\ ~mm[last.key].exists

\* the deletion of a Machine that never got a node name
C23_WitnessUnnamed ==
    /\ MachinePass /\ last.path = "delete"
    /\ last.before.Finalizers /\ last.before.NodeName = ""
    /\ last.patch = "applied" /\ ~mm[last.key].exists

\* the pass got past the lookups and the pause check: it ran reconcileDelete
\* or reconcileNormal
PastChecks == last.path \in {"delete", "normal"}

\* the store holds the object as the last pass left it in memory
WrittenBack ==
    IF Removable(last.after) THEN ~Stored.exists ELSE Stored = last.after

\* C24 (Guaranteed write-back): a pass sends its one patch of the object to
\* the store exactly when it got past the lookups and the pause check,
\* whatever it returns; when the store applies the patch it holds the object
\* as the pass left it, also when the pass returned an error, and a pass that
\* sent no patch leaves the store as it read it.
C24_WriteBack ==
    AnyPass =>
        /\ PastChecks <=> last.patch \in {"applied", "rejected"}
        /\ last.patch = "applied" => WrittenBack
        /\ last.patch = "none" => Stored = last.before

\* a provisioning pass that generated the node name, failed at AddNode and
\* returned the error: the store holds phase Failed, the reason and the name
C24_Witness ==
    /\ Provisioning /\ last.res.err
    /\ last.before.NodeName = "" /\ last.before.Phase # phaseFailed
    /\ last.patch = "applied"
    /\ mm[last.key].Phase = phaseFailed
    /\ mm[last.key].FailureReason = ptr("NodeProvisionFailed")
    /\ mm[last.key].NodeName # ""

\* a Cluster pass whose configuration query failed over a ready Cluster: the
\* store holds Ready false and the reason
C24_WitnessCluster ==
    /\ ConfigPass /\ last.res.err /\ last.before.Ready
    /\ last.patch = "applied"
    /\ ~mc.Ready /\ mc.FailureReason = ptr("ClusterConfigNotFound")

\* the object of the last pass is gone, or an object it depends on is absent:
\* the owner reference is not set or names an object the store does not hold,
\* for a Machine also the Cluster or the MinikubeCluster; every read the pass
\* made was served
OwnerAbsent ==
    /\ AnyPass /\ ~TransientReadFailure
    /\ \/ ~last.before.exists
       \/ ClusterPass /\ (~last.before.ownerRef \/ ~cluster.exists)
       \/ MachinePass /\ last.before.owner \in {"unset", "gone"}
       \/ MachinePass /\ (~cluster.exists \/ ~mc.exists)

\* C25 (Owner deferral): a pass whose object is gone, or whose owner, Cluster
\* or MinikubeCluster is absent, returns no error and no request for a
\* re-pass, makes no HostBridge call and sends no patch, so that the store
\* holds the object as the pass read it.
C25_OwnerDeferral ==
    OwnerAbsent =>
        /\ last.res = NoError
        /\ last.calls = <<>>
        /\ last.patch = "none"
        /\ Stored = last.before

\* a normal pass that read the finalizer and a provider identifier, and whose
\* GetNodeInfo call succeeded
DescribedSteady ==
    /\ MachinePass /\ last.path = "normal"
    /\ last.before.Finalizers /\ ReadProviderID
    /\ Len(last.calls) = 1
    /\ last.calls[1].op = "GetNodeInfo" /\ last.calls[1].ok

\* C26 (Steady-state republish): a normal pass over a Machine with a provider
\* identifier whose GetNodeInfo call succeeds sets phase Provisioned, Ready to
\* the running flag GetNodeInfo returned and the address list to the address
\* it returned, leaves everything else as read and returns no error; whether
\* the node runs or not, the pass calls neither GetClusterConfig nor AddNode
\* and never leaves phase Failed or a failure reason it did not read.
C26_SteadyRepublish ==
    DescribedSteady =>
        /\ last.after = [last.before EXCEPT
                            !.Phase = phaseProvisioned,
                            !.Ready = last.calls[1].Running,
                            !.Addresses = <<last.calls[1].IP>>]
        /\ last.res = NoError

\* the second pass in a row that found the node not running, over a Machine
\* that had been ready at another address: Provisioned, not ready
C26_Witness ==
    /\ DescribedSteady /\ ~last.calls[1].Running
    /\ last.before.Phase = phaseProvisioned /\ ~last.before.Ready
    /\ last.calls[1].IP # "10.0.0.5"
    /\ last.patch = "applied"
    /\ mm[last.key].Phase = phaseProvisioned /\ ~mm[last.key].Ready
    /\ mm[last.key].FailureReason = nil

\* C27 (Re-query before acting and request construction): every AddNode call
\* is the second HostBridge call of its pass, after a GetClusterConfig call
\* for the same profile that succeeded; its node configuration carries the
\* Machine's node name, the worker flag of the spec or true when the spec has
\* none, the control-plane flag of the spec and the Kubernetes version that
\* GetClusterConfig call returned, and delOnFail is false.
C27_RequestConstruction ==
    MachinePass =>
        \A i \in CallsTo("AddNode") :
            /\ i = 2
            /\ last.calls[1].op = "GetClusterConfig"
            /\ last.calls[1].ok
            /\ last.calls[1].profile = last.calls[i].profile
            /\ last.calls[i].node.Name = last.after.NodeName
            /\ last.before.NodeName # "" =>
                  last.calls[i].node.Name = last.before.NodeName
            /\ last.calls[i].node.Worker =
                  (IF last.before.Worker = nil THEN TRUE
                   ELSE last.before.Worker[1])
            /\ last.calls[i].node.ControlPlane = last.before.ControlPlane
            /\ last.calls[i].node.KubernetesVersion =
                  last.calls[1].KubernetesVersion
            /\ ~last.calls[i].delOnFail

\* an AddNode call for a control-plane node that is no worker, at the older
\* Kubernetes version of the profile
C27_Witness ==
    /\ MachinePass /\ CallsTo("AddNode") = {2}
    /\ last.before.Worker = ptr(FALSE) /\ last.before.ControlPlane
    /\ last.calls[1].KubernetesVersion = "v1.30.2"
    /\ last.calls[2].ok
    /\ last.after.Phase = phaseProvisioned

\* an AddNode call for a Machine whose spec has no worker flag
C27_WitnessDefault ==
    /\ MachinePass /\ CallsTo("AddNode") = {2}
    /\ last.before.Worker = nil /\ last.calls[2].node.Worker
    /\ last.calls[2].ok

\* a provisioning pass over a Machine in phase Failed
FailedRetried == Provisioning /\ last.before.Phase = phaseFailed

\* C28 (A Failed Machine is retried like any other): a normal pass over a
\* Machine in phase Failed, with the finalizer and without a provider
\* identifier, queries the profile's configuration and, when that succeeds,
\* calls AddNode, with the node name the Machine already has if it has one;
\* the phase it leaves is Provisioned when AddNode and GetNodeInfo succeed,
\* Provisioning when only GetNodeInfo fails, and Failed otherwise.
C28_FailedRetried ==
    FailedRetried =>
        /\ last.calls # <<>>
        /\ last.calls[1].op = "GetClusterConfig"
        /\ last.calls[1].ok =>
              /\ CallsTo("AddNode") = {2}
              /\ last.before.NodeName # "" =>
                    last.calls[2].name = last.before.NodeName
        /\ last.after.Phase =
              IF AddAndDescribeOK THEN phaseProvisioned
              ELSE IF DescribeAfterAddFailed THEN phaseProvisioning
              ELSE phaseFailed

\* a Machine that failed at AddNode and was provisioned by the next pass
\* under the name of the failed attempt
C28_Witness ==
    /\ FailedRetried /\ AddAndDescribeOK
    /\ last.before.FailureReason = ptr("NodeProvisionFailed")
    /\ last.calls[2].name = last.before.NodeName
    /\ last.patch = "applied"
    /\ mm[last.key].Phase = phaseProvisioned

\* the step is a pass of the Machine reconciler, of the Cluster reconciler
MachineStep == last'.kind = "machine" /\ last' # last

ClusterStep == last'.kind = "cluster" /\ last' # last

\* the object left the store in this step
Removed(old, new) == old.exists /\ ~new.exists

\* the fields of a MinikubeMachine no pass writes: owner reference, pause
\* annotation, deletion timestamp, worker and control-plane flags
MachineFrame(old, new) ==
    /\ new.owner = old.owner
    /\ new.paused = old.paused
    /\ new.DeletionTimestamp = old.DeletionTimestamp
    /\ new.Worker = old.Worker
    /\ new.ControlPlane = old.ControlPlane

\* the fields of a MinikubeCluster no pass writes: owner reference, pause
\* annotation, deletion timestamp and profile name
ClusterFrame(old, new) ==
    /\ new.ownerRef = old.ownerRef
    /\ new.paused = old.paused
    /\ new.DeletionTimestamp = old.DeletionTimestamp
    /\ new.ProfileName = old.ProfileName

\* what a pass of the Machine reconciler leaves alone
MachinePassFrame ==
    /\ cluster' = cluster /\ mc' = mc
    /\ \A k \in Machines \ {last'.key} : mm'[k] = mm[k]
    /\ ~mm[last'.key].exists => mm'[last'.key] = mm[last'.key]
    /\ MachineFrame(mm[last'.key], last'.after)
    /\ IF Removed(mm[last'.key], mm'[last'.key])
       THEN mm[last'.key].DeletionTimestamp /\ ~last'.after.Finalizers
       ELSE mm'[last'.key].exists = mm[last'.key].exists
            /\ MachineFrame(mm[last'.key], mm'[last'.key])

\* what a pass of the Cluster reconciler leaves alone
ClusterPassFrame ==
    /\ cluster' = cluster /\ mm' = mm /\ nodes' = nodes
    /\ \A i \in DOMAIN last'.calls : last'.calls[i].op = "GetClusterConfig"
    /\ ~mc.exists => mc' = mc
    /\ ClusterFrame(mc, last'.after)
    /\ IF Removed(mc, mc')
       THEN mc.DeletionTimestamp /\ ~last'.after.Finalizers
       ELSE mc'.exists = mc.exists /\ ClusterFrame(mc, mc')

\* C29 (Frame of the reconcilers): a Machine pass changes neither the Cluster
\* nor the MinikubeCluster nor another Machine, and of its own Machine only
\* node name, provider identifier, status and finalizer; a Cluster pass
\* changes no Machine and not the profile's nodes, makes no HostBridge call
\* but GetClusterConfig, and changes of its MinikubeCluster only endpoint,
\* status and finalizer.  An object leaves the store in a pass only when its
\* deletion had been requested and the pass removed the finalizer: no pass
\* deletes an object.
C29_Frame ==
    [][/\ MachineStep => MachinePassFrame
       /\ ClusterStep => ClusterPassFrame]_vars

\* a Machine pass that provisioned a node while the MinikubeCluster was ready
\* with its endpoint set: the Machine changed, the MinikubeCluster is as it
\* was
C29_Witness ==
    /\ MachinePass /\ AddAndDescribeOK
    /\ last.patch = "applied" /\ last.after # last.before
    /\ mm[last.key] = last.after
    /\ mc.exists /\ mc.Ready /\ mc.Host # ""

\* C30 (Effective profile identifier): every HostBridge call of a pass, of
\* either reconciler and on the normal and the deletion path, names the
\* MinikubeCluster's explicit profile name when that is not empty, and the
\* Cluster's name otherwise.
C30_EffectiveProfile ==
    AnyPass =>
        \A i \in DOMAIN last.calls : last.calls[i].profile = EffectiveProfile

\* a Machine provisioned and then deleted in the explicitly named profile:
\* its DeleteNode call named that profile and took the node out of it
C30_Witness ==
    /\ MachinePass /\ last.path = "delete"
    /\ mc.ProfileName = ExplicitProfile
    /\ last.before.Phase = phaseProvisioned
    /\ last.calls # <<>> /\ last.calls[1].op = "DeleteNode"
    /\ last.calls[1].profile = ExplicitProfile /\ last.calls[1].ok

\* a Cluster pass that queried the profile named after the Cluster
C30_WitnessDefault ==
    /\ ConfigPass /\ mc.ProfileName = ""
    /\ last.calls[1].profile = ClusterName /\ last.calls[1].ok

\* C31 (No provisioning after a deletion request): a pass that reads a
\* Machine whose deletion is requested calls neither GetClusterConfig nor
\* AddNode nor GetNodeInfo, whatever phase and provider identifier it reads,
\* and leaves the phase as read or sets it to Deleting: the phase never
\* becomes Provisioning or Provisioned again.
C31_NoProvisioningAfterDelete ==
    (MachinePass /\ last.before.exists /\ last.before.DeletionTimestamp) =>
        /\ CallsTo("AddNode") = {}
        /\ CallsTo("GetClusterConfig") = {}
        /\ CallsTo("GetNodeInfo") = {}
        /\ last.path # "normal"
        /\ last.after.Phase \in {last.before.Phase, phaseDeleting}
        /\ last.path = "delete" => last.after.Phase = phaseDeleting

\* the deletion pass of a Machine that had the finalizer but had not been
\* provisioned: phase Failed or unset, no provider identifier
C31_Witness ==
    /\ MachinePass /\ last.path = "delete"
    /\ last.before.Finalizers /\ ~ReadProviderID
    /\ last.before.Phase \in {phaseUnset, phaseFailed}
    /\ last.after.Phase = phaseDeleting
    /\ last.patch = "applied"

\* C32 (A Machine only de-provisions what it provisioned): every DeleteNode
\* call of a Machine pass names a node that an AddNode call of the same
\* Machine added successfully before.
C32_DeletesOnlyOwnNode ==
    MachinePass =>
        \A i \in CallsTo("DeleteNode") :
            <<last.key, last.calls[i].name>> \in added

\* the case of C32 that costs a node: a DeleteNode call that succeeded took a
\* node out of the profile that the Machine had added itself
C32_RemovesOnlyOwnNode ==
    MachinePass =>
        \A i \in CallsTo("DeleteNode") :
            last.calls[i].ok => <<last.key, last.calls[i].name>> \in added

\* an AddNode call of this Machine succeeded before the step
AddedBefore(m) == \E pair \in added : pair[1] = m

\* C34 (At most one successful AddNode per Machine): no pass of a Machine
\* calls AddNode once an AddNode call of an earlier pass of that Machine has
\* succeeded.
C34_AtMostOneAdd ==
    [][(MachineStep /\ AddedBefore(last'.key)) =>
           \A i \in DOMAIN last'.calls : last'.calls[i].op # "AddNode"]_vars

\* the last pass wrote the Machine to the store: its patch was applied
MachineWrite == MachinePass /\ last.patch = "applied"

\* C35 (Failure fields match the phase): in every object the Machine
\* reconciler writes, phase Provisioning or Provisioned implies that failure
\* reason and failure message are both empty, and phase Failed implies that
\* both are set.
C35_FailureMatchesPhase ==
    MachineWrite =>
        /\ last.after.Phase \in {phaseProvisioning, phaseProvisioned} =>
              (last.after.FailureReason = nil /\ last.after.FailureMessage = nil)
        /\ last.after.Phase = phaseFailed =>
              (last.after.FailureReason # nil /\ last.after.FailureMessage # nil)

\* C36 (Provisioned implies a provider identifier): in every object the
\* Machine reconciler writes, phase Provisioned implies that the provider
\* identifier and the node name of the spec are both non-empty.
C36_ProvisionedHasProviderID ==
    MachineWrite =>
        (last.after.Phase = phaseProvisioned =>
            (nodeAlreadyExists(last.after) /\ last.after.NodeName # ""))

\* C39 (Readiness only while Provisioned): in every object the Machine
\* reconciler writes, Ready true implies phase Provisioned.
C39_ReadyOnlyProvisioned ==
    MachineWrite => (last.after.Ready => last.after.Phase = phaseProvisioned)

\* the case of C39 on the deletion path: the object a deletion pass writes is
\* not ready
C39_DeletingNotReady ==
    (MachineWrite /\ last.path = "delete") => ~last.after.Ready


\* the Cluster reconciler wrote the object of its pass to the store
ClusterWrite == ClusterPass /\ last.patch = "applied"

\* failure reason and failure message are both set or both unset, and a
\* ready status carries neither
StatusConsistent(obj) ==
    /\ (obj.FailureReason = nil) <=> (obj.FailureMessage = nil)
    /\ obj.Ready => (obj.FailureReason = nil /\ obj.FailureMessage = nil)

\* C37: every MinikubeCluster the Cluster reconciler writes, and every
\* MinikubeCluster the store holds, has failure reason and failure message
\* both set or both unset, and none of them when it is ready; a pass that
\* fails in reconcileNormal and writes its object writes it not ready,
\* whatever the status it read
C37_ClusterStatusConsistent ==
    /\ StatusConsistent(mc)
    /\ ClusterWrite =>
          /\ StatusConsistent(last.after)
          /\ (last.path = "normal" /\ last.res.err) =>
                (~last.after.Ready /\ (mc.exists => ~mc.Ready))

\* a pass read a ready MinikubeCluster, failed at GetClusterConfig and wrote
\* the MinikubeCluster back with the failure
C37_Witness ==
    /\ ClusterWrite
    /\ last.path = "normal"
    /\ last.res.err
    /\ last.before.Ready
    /\ last.before.FailureReason = nil
    /\ last.after.FailureReason # nil
    /\ mc.exists /\ ~mc.Ready


-----------------------------------------------------------------------------
(* The provider identifier over the life of a Machine *)

\* a provider identifier other than the one the host gave at provisioning
OtherProviderID == "p-456"

\* PlainAnswers, and a GetNodeInfo that reports another provider identifier
ProviderAnswers ==
    PlainAnswers \cup
    {Answers("ok", OKConfig, "ok",
             [OKDescribe EXCEPT !.ProviderID = OtherProviderID], "ok")}

ProviderInit == Init /\ mc.ProfileName = ExplicitProfile

\* the Machine reconciler from the manifest to the removal of the Machine,
\* with a host that may report either provider identifier
ProviderNext ==
    \/ \E m \in Machines : MachineReconcileWith(m, ProviderAnswers, BOOLEAN)
    \/ \E m \in Machines : RequestDeleteMachine(m)
    \/ \E m \in Machines : SetMachineOwner(m)

ProviderSpec == ProviderInit /\ [][ProviderNext]_vars

\* C38: once the Spec.ProviderID of a Machine in the store is non-empty, no
\* step changes or clears it while the Machine exists, and a reconcile pass
\* for the Machine leaves it as it was in the object it hands to the patch,
\* on the steady-state path (whatever provider identifier GetNodeInfo
\* reports) and on the deletion path
C38_ProviderIDSetOnce ==
    [][\A m \in Machines :
          (mm[m].exists /\ nodeAlreadyExists(mm[m])) =>
             /\ mm'[m].exists => mm'[m].ProviderID = mm[m].ProviderID
             /\ (MachineStep /\ last'.key = m) =>
                   last'.after.ProviderID = mm[m].ProviderID]_vars

\* a steady-state pass was told another provider identifier by GetNodeInfo
\* and wrote the Machine back with the stored one
C38_Witness ==
    /\ MachinePass /\ last.path = "normal"
    /\ nodeAlreadyExists(last.before)
    /\ Len(last.calls) = 1
    /\ last.calls[1].op = "GetNodeInfo" /\ last.calls[1].ok
    /\ last.calls[1].ProviderID # last.before.ProviderID[1]
    /\ last.calls[1].ProviderID = OtherProviderID
    /\ last.patch = "applied"
    /\ mm[last.key].ProviderID = last.before.ProviderID

\* a deletion pass of a provisioned Machine handed the Machine to the patch
\* with the stored provider identifier; the patch was rejected and the store
\* holds the Machine as before
C38_WitnessDelete ==
    /\ MachinePass /\ last.path = "delete"
    /\ nodeAlreadyExists(last.before)
    /\ last.after.ProviderID = last.before.ProviderID
    /\ last.patch = "rejected"
    /\ mm[last.key].exists
    /\ mm[last.key].ProviderID = last.before.ProviderID


-----------------------------------------------------------------------------
(* Two Machines of one profile *)

\* the keys of two MinikubeMachines of the same Cluster
MachinePair == {"a", "b"}

\* two Machines of the same profile, both without a node name, owner
\* reference set
PairInit ==
    /\ cluster = [exists |-> TRUE, Paused |-> FALSE, Name |-> ClusterName]
    /\ mc = [NewMinikubeCluster("") EXCEPT !.ownerRef = TRUE]
    /\ mm = [m \in MachinePair |-> [NewMachine(m, "") EXCEPT !.owner = "present"]]
    /\ nodes \in InitialNodeLists
    /\ last = NoPass
    /\ sched = IdleQueue
    /\ added = {}

\* the passes of the two Machines in any order
PairNext ==
    \E m \in MachinePair : MachineReconcileWith(m, PlainAnswers, BOOLEAN)

PairSpec == PairInit /\ [][PairNext]_vars

\* C33: two different Machines of the same profile that both started without
\* a node name never hold the same node name in their specs
C33_DistinctNodeNames ==
    \A m1, m2 \in MachinePair :
        (/\ m1 # m2
         /\ mm[m1].exists /\ mm[m2].exists
         /\ mm[m1].NodeName # "" /\ mm[m2].NodeName # "")
        => mm[m1].NodeName # mm[m2].NodeName

====
